---------------------------- MODULE Spec2Model ----------------------------
(***************************************************************************)
(* HVDC logistics classification.  One shipment record is classified by    *)
(*   scripts/logistics_mapper.py   HVDCLogisticsMapper: step, site, stage, *)
(*                                 the four lead-time deltas;              *)
(*   scripts/logistics/mapper.py   HVDCLogisticsMapper: total lead time,   *)
(*                                 lead-time status, risk, stage label;    *)
(*   scripts/create_sample_data.py the second lead-time status derivation. *)
(*                                                                         *)
(* The quality checker of scripts/data/validator.py, step 2 and step 3 of  *)
(* scripts/automation/pipeline.py, safe_divide of scripts/core/utils.py    *)
(* and run_pipeline of scripts/auto_pipeline.py follow.                    *)
(*                                                                         *)
(* The tables of the mappers are modelled by one row: no operation of      *)
(* theirs reads another row.  The tables of the quality checker are        *)
(* functions from column names to columns, the sequences of their cells.   *)
(* A row is a function from column names to cells, and a cell is a         *)
(* record [kind, v]: kind "NaN" is pandas' missing value (None, NaN, NaT), *)
(* "str" a text, "date" a day number, "num" a number.                      *)
(*                                                                         *)
(* Names that TLA+ cannot carry are transliterated: "Customs Start" and    *)
(* "DSV Outdoor" for the columns "Customs\n Start" and "DSV\n Outdoor",    *)
(* LT_ATA_Customs, LT_Customs_DSV, LT_DSV_MOSB, LT_Total for the four      *)
(* lead-time columns of logistics_mapper.py, LT_Days, LT_Status, Risk, DG, *)
(* Island for the Korean column names of logistics/mapper.py, and          *)
(* NOT_ARRIVED, ON_TRACK, CAUTION, DELAYED for its four status labels;     *)
(* the Korean stage label of 99 is "Other", and the step names are given   *)
(* in English.                                                             *)
(***************************************************************************)
EXTENDS Integers, Sequences, FiniteSets, TLC

VARIABLES
    raw,        \* the source table's record (data/HVDC-STATUS.xlsx), one row
    df,         \* logistics_mapper's DataFrame row: column name -> cell
    runs,       \* how many times process_data has run on df
    final,      \* logistics/mapper's final_df row (or NoRow)
    lead,       \* input of the lead-time status derivations
    boundary,   \* CAUTION/DELAYED boundary the caller would like applied
    statusCol,  \* whether the status column exists, for _add_risk_level
    statusIn,   \* status value handed to _add_risk_level
    statusOut,  \* results of the status derivations
    riskOut,    \* result of _add_risk_level
    desc,       \* description handed to the stage classifiers
    stageOut,   \* results of the stage classifiers
    siteRow,    \* row handed to detect_site
    siteOut,    \* what detect_site returned last ("" before its first call)
    siteCalls,  \* how many times detect_site was called on siteRow
    siteLog,    \* the warnings detect_site has logged
    table,      \* the DataFrame handed to the quality checker
    config,     \* the validation config of the latest validate_dataframe
    validation_results, \* HVDCQualityChecker.validation_results
    report,     \* what the latest validate_dataframe returned
    raised,     \* the exception the latest call raised ("" when none)
    calls,      \* the methods called on the checker or the mapper, in order
    overall,    \* what run_pipeline logged about the step it ran
    divArgs,    \* the arguments of the latest safe_divide call (or NoRow)
    divOut,     \* what that call returned or raised (or NoRow)
    pipeArgs,   \* auto_pipeline: the arguments of run_pipeline and the
                \* outcome each step will have (or NoRow)
    pipePc,     \* auto_pipeline: the step run_pipeline is about to start
    pipeLog,    \* auto_pipeline: the steps started, in order
    pipeOut     \* auto_pipeline: what run_pipeline returned ("" before)

vars == <<raw, df, runs, final, lead, boundary, statusCol, statusIn, statusOut,
          riskOut, desc, stageOut, siteRow, siteOut, siteCalls, siteLog,
          table, config, validation_results, report, raised, calls, overall,
          divArgs, divOut, pipeArgs, pipePc, pipeLog, pipeOut>>

recordVars == <<raw, df, runs, final>>
statusVars == <<lead, boundary, statusCol, statusIn, statusOut, riskOut>>
stageVars  == <<desc, stageOut>>
siteVars   == <<siteRow, siteOut, siteCalls, siteLog>>
checkVars  == <<table, config, validation_results, report, raised, calls,
                overall>>
utilVars   == <<divArgs, divOut>>
pipeVars   == <<pipeArgs, pipePc, pipeLog, pipeOut>>

----------------------------------------------------------------------------
(* Bounds of the model *)

\* milestone dates are day numbers 0..MaxDay
MaxDay == 1
\* process_data runs at most MaxRuns times on one DataFrame
MaxRuns == 2
\* lead times handed to the status derivations are -MaxLead..MaxLead
MaxLead == 95
\* descriptions are 1..MaxWords words of Vocabulary
MaxWords == 2
\* the tables handed to the quality checker have no row, or MaxRows rows
MaxRows == 5
\* one quality checker serves at most MaxCalls calls
MaxCalls == 2

\* the operands of safe_divide range over -MaxOperand..MaxOperand
MaxOperand == 3

----------------------------------------------------------------------------
(* Cells *)

NaN == [kind |-> "NaN", v |-> 0]
Str(s) == [kind |-> "str", v |-> s]
Date(d) == [kind |-> "date", v |-> d]
Num(n) == [kind |-> "num", v |-> n]
\* a bytes object, b'...': a value that is no str and whose str() holds its text
Bytes(s) == [kind |-> "bytes", v |-> s]

\* pd.isna / pd.notna
isna(x) == x.kind = "NaN"
notna(x) == ~isna(x)

Dates == {Date(d) : d \in 0..MaxDay}

\* pd.to_datetime(col, errors='coerce'): a value that is no date becomes NaT
to_datetime(x) == IF x.kind = "date" THEN x ELSE NaN

\* (later - earlier).dt.days: NaN when either operand is NaT
days_between(later, earlier) ==
    IF isna(later) \/ isna(earlier) THEN NaN ELSE Num(later.v - earlier.v)

\* faulty variant of plus: the missing value is filled with 0 before the addition
plus_fillna(x, n) == IF isna(x) THEN Num(n) ELSE Num(x.v + n)

\* Series + n: NaN stays NaN
plus(x, n) == IF isna(x) THEN NaN ELSE Num(x.v + n)

\* df[col] = value: the column is added, or overwritten when it exists
SetCol(d, col, val) ==
    [c \in DOMAIN d \cup {col} |-> IF c = col THEN val ELSE d[c]]

Milestones == {"ATA", "Customs Start", "DSV Outdoor", "MOSB"}
SiteCols == {"MIR", "SHU", "DAS", "AGI"}

----------------------------------------------------------------------------
(* Python strings *)

UpperCase == "ABCDEFGHIJKLMNOPQRSTUVWXYZ"
LowerCase == "abcdefghijklmnopqrstuvwxyz"

\* the lower-case letter of each upper-case letter
LowerTable ==
    [c \in {SubSeq(UpperCase, i, i) : i \in 1..Len(UpperCase)} |->
        LET i == CHOOSE j \in 1..Len(UpperCase) : SubSeq(UpperCase, j, j) = c
        IN  SubSeq(LowerCase, i, i)]

lower_char(c) == IF c \in DOMAIN LowerTable THEN LowerTable[c] ELSE c

\* str.lower()
RECURSIVE lower(_)
lower(s) ==
    IF Len(s) = 0 THEN ""
    ELSE lower_char(SubSeq(s, 1, 1)) \o lower(SubSeq(s, 2, Len(s)))

\* k in d, for strings: k is a substring of d
Contains(k, d) ==
    \E i \in 1..(Len(d) - Len(k) + 1) : SubSeq(d, i, i + Len(k) - 1) = k

\* any(k in d for k in keywords)
any_in(keywords, d) == \E k \in keywords : Contains(k, d)

\* str.strip() of s is empty: s holds nothing but blanks
strip_is_empty(s) == \A i \in 1..Len(s) : SubSeq(s, i, i) = " "

\* str(desc) for the values the model hands to the classifiers
str(x) ==
    IF x.kind = "str" THEN x.v
    ELSE IF x.kind = "bytes" THEN "b'" \o x.v \o "'"
    ELSE IF x.kind = "NaN" THEN "nan"
    ELSE ToString(x.v)

----------------------------------------------------------------------------
(* The stage classifiers *)

STEP_OTHER == 99

\* logistics_mapper.py, refined_hvdc_step: the keyword list of each rule
RefinedConverter ==
    {"converter", "valve hall", "thyristor", "igbt", "converter transformer",
     "transformer", "synchronous condenser", "valve support", "cooling unit",
     "valve", "power electronics", "semiconductor"}
RefinedTransmission ==
    {"dc cable", "submarine cable", "transmission line", "power cable",
     "conductor", "cable termination", "sealing end", "joint",
     "gis termination", "conduit", "busbar", "aluminium busbar",
     "copper busbar", "bus bar", "bus-bar", "cable", "wire", "transmission",
     "power line"}
RefinedFilter ==
    {"ac harmonic filter", "dc filter", "harmonic filter", "smoothing reactor",
     "high frequency filter", "reactor", "capacitor", "lc filter", "ac filter",
     "insulator", "gis", "layer", "layers", "filter layer", "filter bank",
     "filter unit", "reactor bank", "reactor unit", "capacitor bank",
     "capacitor unit"}
RefinedControl ==
    {"scada", "control system", "relay", "protection panel", "monitoring",
     "plc", "hmi", "rtu", "breaker", "busbar protection", "system",
     "control cubicle", "control panel", "control unit", "control box",
     "optical", "fiber", "fibre", "transducer", "sensor", "transmitter",
     "battery", "batteries", "power supply", "ups", "dc power",
     "cubicle", "panel", "cabinet", "enclosure", "housing"}
RefinedGrounding ==
    {"grounding", "earth electrode", "electrode line", "neutral bus", "nbgs",
     "nbs", "earthing", "ground", "earth", "neutral", "grounding system",
     "grounding rod", "grounding wire", "grounding cable"}
RefinedSpare ==
    {"spare", "repair", "tool", "maintenance", "accessories", "consumable",
     "dummy", "spare part", "replacement", "backup", "reserve", "standby",
     "maintenance kit", "repair kit", "tool kit", "tool set"}

\* the rules in declaration order
RefinedRules ==
    <<RefinedConverter, RefinedTransmission, RefinedFilter, RefinedControl,
      RefinedGrounding, RefinedSpare>>

\* faulty variant of refined_hvdc_step: the Grounding rule is tried before the
\* Transmission rule
refined_hvdc_step_grounding_first(x) ==
    IF x.kind # "str" \/ strip_is_empty(x.v) THEN STEP_OTHER
    ELSE LET d == lower(x.v) IN
         IF any_in(RefinedConverter, d) THEN 1
         ELSE IF any_in(RefinedGrounding, d) THEN 5
         ELSE IF any_in(RefinedTransmission, d) THEN 2
         ELSE IF any_in(RefinedFilter, d) THEN 3
         ELSE IF any_in(RefinedControl, d) THEN 4
         ELSE IF any_in(RefinedSpare, d) THEN 6
         ELSE STEP_OTHER

refined_hvdc_step(x) ==
    IF x.kind # "str" \/ strip_is_empty(x.v) THEN STEP_OTHER
    ELSE LET d == lower(x.v) IN
         IF any_in(RefinedConverter, d) THEN 1
         ELSE IF any_in(RefinedTransmission, d) THEN 2
         ELSE IF any_in(RefinedFilter, d) THEN 3
         ELSE IF any_in(RefinedControl, d) THEN 4
         ELSE IF any_in(RefinedGrounding, d) THEN 5
         ELSE IF any_in(RefinedSpare, d) THEN 6
         ELSE STEP_OTHER

\* logistics/mapper.py, updated_hvdc_step_logic: the keyword list of each rule
UpdatedConverter == {"converter transformer", "valve", "thyristor", "igbt"}
UpdatedTransmission == {"dc cable", "submarine", "overhead", "transmission"}
UpdatedFilter == {"filter", "reactor", "capacitor", "harmonic"}
UpdatedControl == {"scada", "control", "protection", "monitoring"}
UpdatedGrounding == {"grounding", "electrode", "earth"}
UpdatedSpare == {"spare", "repair"}

UpdatedRules ==
    <<UpdatedConverter, UpdatedTransmission, UpdatedFilter, UpdatedControl,
      UpdatedGrounding, UpdatedSpare>>

updated_hvdc_step_logic(x) ==
    IF isna(x) THEN STEP_OTHER
    ELSE LET desc_str == lower(str(x)) IN
         IF any_in(UpdatedConverter, desc_str) THEN 1
         ELSE IF any_in(UpdatedTransmission, desc_str) THEN 2
         ELSE IF any_in(UpdatedFilter, desc_str) THEN 3
         ELSE IF any_in(UpdatedControl, desc_str) THEN 4
         ELSE IF any_in(UpdatedGrounding, desc_str) THEN 5
         ELSE IF any_in(UpdatedSpare, desc_str) THEN 6
         ELSE STEP_OTHER

\* df["..."].map(step_labels)
step_labels(n) ==
    CASE n = 1 -> "Converter"
      [] n = 2 -> "Transmission"
      [] n = 3 -> "Filter/Reactor"
      [] n = 4 -> "Control/Protection"
      [] n = 5 -> "Grounding"
      [] n = 6 -> "Spare/Maintenance"
      [] n = 99 -> "Other"

----------------------------------------------------------------------------
(* scripts/logistics_mapper.py: step, site and lead-time deltas *)

\* faulty variant of determine_step: ATA is looked at before the customs start
determine_step_ata_first(row) ==
    IF notna(row["MOSB"]) THEN 5
    ELSE IF notna(row["DSV Outdoor"]) THEN 4
    ELSE IF notna(row["ATA"]) THEN 2
    ELSE IF notna(row["Customs Start"]) THEN 3
    ELSE 1

\* faulty variant of determine_step: the warehouse-out date is looked at before MOSB
determine_step_dsv_first(row) ==
    IF notna(row["DSV Outdoor"]) THEN 4
    ELSE IF notna(row["MOSB"]) THEN 5
    ELSE IF notna(row["Customs Start"]) THEN 3
    ELSE IF notna(row["ATA"]) THEN 2
    ELSE 1

\* determine_step(row): 1..5 from the milestones that are not missing
determine_step(row) ==
    IF notna(row["MOSB"]) THEN 5
    ELSE IF notna(row["DSV Outdoor"]) THEN 4
    ELSE IF notna(row["Customs Start"]) THEN 3
    ELSE IF notna(row["ATA"]) THEN 2
    ELSE 1

\* df['STEP_NAME'] = df['STEP_NO'].map({...})
step_names(n) ==
    CASE n = 1 -> "Overseas procurement"
      [] n = 2 -> "Arrived at port"
      [] n = 3 -> "Customs cleared"
      [] n = 4 -> "In transit"
      [] n = 5 -> "Received on site"

\* site_cols = ["MIR", "SHU", "DAS", "AGI"]
site_cols == <<"MIR", "SHU", "DAS", "AGI">>

\* faulty variant of detect_site: AGI is looked at before DAS
detect_site_agi_first(row) ==
    LET cols == <<"MIR", "SHU", "AGI", "DAS">>
        hit(i) == cols[i] \in DOMAIN row /\ notna(row[cols[i]])
    IN  IF \E i \in 1..Len(cols) : hit(i)
        THEN cols[CHOOSE i \in 1..Len(cols) :
                     hit(i) /\ \A j \in 1..(i - 1) : ~hit(j)]
        ELSE "UNK"

\* detect_site(row): the first site column, in site_cols order, that is in the
\* row and not missing; "UNK" when there is none
detect_site(row) ==
    LET hit(i) == site_cols[i] \in DOMAIN row /\ notna(row[site_cols[i]])
    IN  IF \E i \in 1..Len(site_cols) : hit(i)
        THEN site_cols[CHOOSE i \in 1..Len(site_cols) :
                          hit(i) /\ \A j \in 1..(i - 1) : ~hit(j)]
        ELSE "UNK"

\* the warnings detect_site(row) logs: one, carrying row.get('NO.', ''), when
\* it returns "UNK"
detect_site_log(row) ==
    IF detect_site(row) = "UNK"
    THEN <<[level |-> "WARNING",
            message |-> "SITE unidentified: "
                \o str(IF "NO." \in DOMAIN row THEN row["NO."] ELSE Str(""))]>>
    ELSE <<>>

\* df['FLOW'] = df['SITE'].map({...}): a site outside the map gives NaN
flow_of(site) == IF site \in {"MIR", "SHU", "DAS", "AGI"} THEN Str(site) ELSE NaN

\* the +5 days of an island site
ISLAND_OFFSET == 5

\* island_mask = df['SITE'].isin(['AGI', 'DAS'])
island_mask(d) == d["SITE"].v \in {"AGI", "DAS"}

\* date_cols of process_data that the modelled table carries
date_cols == {"ATA", "Customs Start", "DSV Outdoor", "MOSB"}

\* step 1 of process_data: the date columns that exist are coerced to dates
coerce_dates(d) ==
    [c \in DOMAIN d |-> IF c \in date_cols THEN to_datetime(d[c]) ELSE d[c]]

\* faulty variant of lead_times: an arrival -> customs delta the table already has
\* is kept, and corrected again
lead_times_accumulating(d) ==
    LET d1 == IF "LT_ATA_Customs" \in DOMAIN d THEN d
              ELSE SetCol(d, "LT_ATA_Customs",
                          days_between(d["Customs Start"], d["ATA"]))
        d2 == SetCol(d1, "LT_Customs_DSV",
                     days_between(d["DSV Outdoor"], d["Customs Start"]))
        d3 == SetCol(d2, "LT_DSV_MOSB",
                     days_between(d["MOSB"], d["DSV Outdoor"]))
        d4 == SetCol(d3, "LT_Total", days_between(d["MOSB"], d["ATA"]))
    IN  IF island_mask(d4)
        THEN SetCol(d4, "LT_ATA_Customs",
                    plus(d4["LT_ATA_Customs"], ISLAND_OFFSET))
        ELSE d4

\* step 5 of process_data: the four deltas, then the island correction of
\* the arrival -> customs delta alone
lead_times(d) ==
    LET d1 == SetCol(d, "LT_ATA_Customs",
                     days_between(d["Customs Start"], d["ATA"]))
        d2 == SetCol(d1, "LT_Customs_DSV",
                     days_between(d["DSV Outdoor"], d["Customs Start"]))
        d3 == SetCol(d2, "LT_DSV_MOSB",
                     days_between(d["MOSB"], d["DSV Outdoor"]))
        d4 == SetCol(d3, "LT_Total", days_between(d["MOSB"], d["ATA"]))
    IN  IF island_mask(d4)
        THEN SetCol(d4, "LT_ATA_Customs",
                    plus(d4["LT_ATA_Customs"], ISLAND_OFFSET))
        ELSE d4

\* faulty variant of process_data: step 5 corrects the deltas that the table
\* already has
process_data_correcting_again(d) ==
    LET a == coerce_dates(d)
        b0 == SetCol(a, "STEP_NO", Num(determine_step(a)))
        b == SetCol(b0, "STEP_NAME", Str(step_names(b0["STEP_NO"].v)))
        c == SetCol(b, "SITE", Str(detect_site(b)))
        e == SetCol(c, "FLOW", flow_of(c["SITE"].v))
        f == SetCol(e, "HVDC_STEP", Num(refined_hvdc_step(e["SUB DESCRIPTION"])))
        g == SetCol(f, "HVDC_STEP_Label", Str(step_labels(f["HVDC_STEP"].v)))
    IN  lead_times_accumulating(g)

\* HVDCLogisticsMapper.process_data(df), on a one-row table.  Its step 6
\* needs the container columns 20ft Q'TY and 40ft Q'TY, which the modelled
\* table does not have, and is skipped as in the code.
process_data(d) ==
    LET a == coerce_dates(d)
        b0 == SetCol(a, "STEP_NO", Num(determine_step(a)))
        b == SetCol(b0, "STEP_NAME", Str(step_names(b0["STEP_NO"].v)))
        c == SetCol(b, "SITE", Str(detect_site(b)))
        e == SetCol(c, "FLOW", flow_of(c["SITE"].v))
        f == SetCol(e, "HVDC_STEP", Num(refined_hvdc_step(e["SUB DESCRIPTION"])))
        g == SetCol(f, "HVDC_STEP_Label", Str(step_labels(f["HVDC_STEP"].v)))
    IN  lead_times(g)

----------------------------------------------------------------------------
(* scripts/logistics/mapper.py: total lead time, status, risk *)

ON_TRACK_MAX == 30
CAUTION_MAX == 60
GENERATOR_CAUTION_MAX == 90

\* faulty variant of classify_status: no test for a missing lead time, whose
\* comparisons are all false
classify_status_no_nan_test(lead_time) ==
    IF notna(lead_time) /\ lead_time.v <= ON_TRACK_MAX THEN "ON_TRACK"
    ELSE IF notna(lead_time) /\ lead_time.v <= CAUTION_MAX THEN "CAUTION"
    ELSE "DELAYED"

\* faulty variant of classify_status: strict comparisons
classify_status_strict(lead_time) ==
    IF isna(lead_time) THEN "NOT_ARRIVED"
    ELSE IF lead_time.v < ON_TRACK_MAX THEN "ON_TRACK"
    ELSE IF lead_time.v < CAUTION_MAX THEN "CAUTION"
    ELSE "DELAYED"

\* classify_status(lead_time) of _classify_lead_time_status
classify_status(lead_time) ==
    IF isna(lead_time) THEN "NOT_ARRIVED"
    ELSE IF lead_time.v <= ON_TRACK_MAX THEN "ON_TRACK"
    ELSE IF lead_time.v <= CAUTION_MAX THEN "CAUTION"
    ELSE "DELAYED"

\* faulty variant of generator_status: the mapper's boundary
generator_status_at_60(x) ==
    IF isna(x) THEN "NOT_ARRIVED"
    ELSE IF x.v <= ON_TRACK_MAX THEN "ON_TRACK"
    ELSE IF x.v <= CAUTION_MAX THEN "CAUTION"
    ELSE "DELAYED"

\* the lambda of create_sample_data.py's HVDCDataGenerator.process_data
generator_status(x) ==
    IF isna(x) THEN "NOT_ARRIVED"
    ELSE IF x.v <= ON_TRACK_MAX THEN "ON_TRACK"
    ELSE IF x.v <= GENERATOR_CAUTION_MAX THEN "CAUTION"
    ELSE "DELAYED"

\* faulty variant of assign_risk: NOT_ARRIVED is left out of the Low statuses
assign_risk_without_not_arrived(status) ==
    IF status.kind = "str" /\ status.v = "DELAYED" THEN "High"
    ELSE IF status.kind = "str" /\ status.v = "CAUTION" THEN "Medium"
    ELSE IF status.kind = "str" /\ status.v \in {"ON_TRACK"} THEN "Low"
    ELSE "N/A"

\* assign_risk(status) of _add_risk_level
assign_risk(status) ==
    IF status.kind = "str" /\ status.v = "DELAYED" THEN "High"
    ELSE IF status.kind = "str" /\ status.v = "CAUTION" THEN "Medium"
    ELSE IF status.kind = "str" /\ status.v \in {"ON_TRACK", "NOT_ARRIVED"}
         THEN "Low"
    ELSE "N/A"

\* _add_risk_level(df): "N/A" when the status column does not exist
add_risk_level(d) ==
    IF "LT_Status" \notin DOMAIN d THEN SetCol(d, "Risk", Str("N/A"))
    ELSE SetCol(d, "Risk", Str(assign_risk(d["LT_Status"])))

\* _calculate_lead_time(df)
calculate_lead_time(d) ==
    LET a == SetCol(d, "ATA_dt", to_datetime(d["ATA"]))
        b == SetCol(a, "MOSB_dt", to_datetime(a["MOSB"]))
    IN  SetCol(b, "LT_Days", days_between(b["MOSB_dt"], b["ATA_dt"]))

\* _classify_hvdc_step(df)
classify_hvdc_step(d) ==
    LET a == SetCol(d, "HVDC_STEP",
                    Num(updated_hvdc_step_logic(d["SUB DESCRIPTION"])))
    IN  SetCol(a, "HVDC_STEP_Label", Str(step_labels(a["HVDC_STEP"].v)))

\* _classify_lead_time_status(df)
classify_lead_time_status(d) ==
    SetCol(d, "LT_Status", Str(classify_status(d["LT_Days"])))

max_no_filter == 560

final_columns ==
    {"NO.", "VENDOR", "MAIN DESCRIPTION (PO)", "SUB DESCRIPTION",
     "HVDC_STEP_Label", "LT_Days", "LT_Status", "Risk", "INCOTERMS",
     "DG", "Island", "ATA", "MOSB"}

\* pd.to_numeric(col, errors='coerce')
to_numeric(x) == IF x.kind = "num" THEN x ELSE NaN

NoRow == [c \in {} |-> NaN]

\* _select_and_filter_columns(df): missing final columns are added as NA, the
\* row is kept when NO. <= max_no_filter, and projected on final_columns
select_and_filter_columns(d) ==
    LET a == [c \in DOMAIN d \cup final_columns |->
                 IF c \in DOMAIN d THEN d[c] ELSE NaN]
        b == SetCol(a, "NO.", to_numeric(a["NO."]))
    IN  IF notna(b["NO."]) /\ b["NO."].v <= max_no_filter
        THEN [c \in final_columns |-> b[c]]
        ELSE NoRow

\* logistics/mapper.py HVDCLogisticsMapper.process_data(), on the loaded table
mapper_process_data(d) ==
    select_and_filter_columns(
        add_risk_level(
            classify_lead_time_status(
                classify_hvdc_step(
                    calculate_lead_time(d)))))

\* the exception that process_data() of logistics/mapper.py raises on the
\* loaded table ("" when none): _calculate_lead_time reads ATA and MOSB and
\* _classify_hvdc_step reads SUB DESCRIPTION, and a column that the table
\* lacks is a KeyError there; _select_and_filter_columns adds the final
\* columns that are missing, NO. among them, and raises nothing
mapper_process_data_raises(d) ==
    IF {"ATA", "MOSB", "SUB DESCRIPTION"} \subseteq DOMAIN d THEN ""
    ELSE "KeyError"

----------------------------------------------------------------------------
(* The record's lifecycle: upstream milestone updates and mapper runs *)

\* descriptions of the record in the lifecycle specification
RecordDescs == {Str("Spare Valve")}

\* a site indicator is missing or carries a marker
SiteMarks == {NaN, Str("O")}

\* values upstream writes into a milestone cell: a date, or text that is none
MilestoneInputs == Dates \cup {Str("n/a")}

RawCols == {"NO.", "SUB DESCRIPTION"} \cup Milestones \cup SiteCols

\* the status and stage variables are not part of the lifecycle
StatusIdle ==
    /\ lead = NaN
    /\ boundary = CAUTION_MAX
    /\ statusCol = TRUE
    /\ statusIn = NaN
    /\ statusOut = <<>>
    /\ riskOut = ""

StageIdle ==
    /\ desc = NaN
    /\ stageOut = <<>>

RecordIdle ==
    /\ raw = NoRow
    /\ df = NoRow
    /\ runs = 0
    /\ final = NoRow

SiteIdle ==
    /\ siteRow = NoRow
    /\ siteOut = ""
    /\ siteCalls = 0
    /\ siteLog = <<>>

CheckIdle ==
    /\ table = NoRow
    /\ config = NoRow
    /\ validation_results = <<>>
    /\ report = <<>>
    /\ raised = ""
    /\ calls = <<>>
    /\ overall = ""

UtilIdle ==
    /\ divArgs = NoRow
    /\ divOut = NoRow

PipeIdle ==
    /\ pipeArgs = NoRow
    /\ pipePc = ""
    /\ pipeLog = <<>>
    /\ pipeOut = ""

\* a source record: its description, site indicators and milestones
Record(d, sites, ms) ==
    [c \in RawCols |->
        IF c = "NO." THEN Num(1)
        ELSE IF c = "SUB DESCRIPTION" THEN d
        ELSE IF c \in SiteCols THEN sites[c]
        ELSE ms[c]]

\* the site indicators of a record: any of them may be set
SiteRows == [SiteCols -> SiteMarks]

\* the milestone cells of a record: each missing, a date, or text
MilestoneRows == [Milestones -> {NaN} \cup MilestoneInputs]

\* the mappers run on any source record
Init ==
    /\ raw \in {Record(d, sites, ms) :
                  d \in RecordDescs, sites \in SiteRows, ms \in MilestoneRows}
    /\ df = NoRow
    /\ runs = 0
    /\ final = NoRow
    /\ StatusIdle
    /\ StageIdle
    /\ SiteIdle
    /\ CheckIdle
    /\ UtilIdle
    /\ PipeIdle

\* logistics_mapper.py run_pipeline: read the source table, process_data
RunLogisticsMapper ==
    /\ df' = process_data(raw)
    /\ runs' = 1
    /\ UNCHANGED <<raw, final, statusVars, stageVars, siteVars, checkVars,
                   utilVars, pipeVars>>

\* process_data on its own output
Reprocess ==
    /\ runs \in 1..(MaxRuns - 1)
    /\ df' = process_data(df)
    /\ runs' = runs + 1
    /\ UNCHANGED <<raw, final, statusVars, stageVars, siteVars, checkVars,
                   utilVars, pipeVars>>

\* logistics/mapper.py process_data: load the source table, derive final_df
RunMapper ==
    /\ final' = mapper_process_data(raw)
    /\ UNCHANGED <<raw, df, runs, statusVars, stageVars, siteVars,
                   checkVars, utilVars, pipeVars>>

Next ==
    \/ RunLogisticsMapper
    \/ Reprocess
    \/ RunMapper

Spec == Init /\ [][Next]_vars

----------------------------------------------------------------------------
(* The record's lifecycle: write-once milestone updates between mapper runs *)

\* the site indicators of a tracked record: at most one is set
TrackedSiteRows ==
    {s \in SiteRows : \A a, b \in SiteCols : notna(s[a]) /\ notna(s[b]) => a = b}

\* a new record has no milestone yet
InitLifecycle ==
    /\ raw \in {Record(d, sites, [m \in Milestones |-> NaN]) :
                  d \in RecordDescs, sites \in TrackedSiteRows}
    /\ df = NoRow
    /\ runs = 0
    /\ final = NoRow
    /\ StatusIdle
    /\ StageIdle
    /\ SiteIdle
    /\ CheckIdle
    /\ UtilIdle
    /\ PipeIdle

\* upstream sets a milestone that is not set yet (write-once)
UpdateMilestone ==
    \E m \in Milestones, x \in MilestoneInputs :
        /\ isna(raw[m])
        /\ raw' = SetCol(raw, m, x)
        /\ UNCHANGED <<df, runs, final, statusVars, stageVars, siteVars,
                       checkVars, utilVars, pipeVars>>

NextLifecycle ==
    \/ UpdateMilestone
    \/ RunLogisticsMapper

SpecLifecycle == InitLifecycle /\ [][NextLifecycle]_vars

----------------------------------------------------------------------------
(* The lead-time status and risk derivations on their own *)

\* lead times: missing, or an integer number of days
Leads == {NaN} \cup {Num(n) : n \in (0 - MaxLead)..MaxLead}

\* what a status cell may hold: the four statuses, another text, nothing
StatusInputs ==
    {Str("NOT_ARRIVED"), Str("ON_TRACK"), Str("CAUTION"), Str("DELAYED"),
     Str("UNKNOWN"), NaN}

\* the boundaries a caller may want between CAUTION and DELAYED
Boundaries == {CAUTION_MAX, GENERATOR_CAUTION_MAX}

InitStatus ==
    /\ lead \in Leads
    /\ boundary \in Boundaries
    /\ statusCol \in BOOLEAN
    /\ statusIn \in StatusInputs
    /\ statusOut = <<>>
    /\ riskOut = ""
    /\ RecordIdle
    /\ StageIdle
    /\ SiteIdle
    /\ CheckIdle
    /\ UtilIdle
    /\ PipeIdle

\* the two status derivations of the repository, applied to one lead time
ClassifyStatus ==
    /\ statusOut = <<>>
    /\ statusOut' = [mapper |-> classify_status(lead),
                     generator |-> generator_status(lead)]
    /\ UNCHANGED <<lead, boundary, statusCol, statusIn, riskOut,
                   recordVars, stageVars, siteVars, checkVars,
                   utilVars, pipeVars>>

\* _add_risk_level on a table with, or without, the status column
AddRiskLevel ==
    /\ riskOut = ""
    /\ riskOut' = LET d == IF statusCol
                           THEN SetCol(NoRow, "LT_Status", statusIn)
                           ELSE NoRow
                  IN  add_risk_level(d)["Risk"].v
    /\ UNCHANGED <<lead, boundary, statusCol, statusIn, statusOut,
                   recordVars, stageVars, siteVars, checkVars,
                   utilVars, pipeVars>>

NextStatus ==
    \/ ClassifyStatus
    \/ AddRiskLevel

SpecStatus == InitStatus /\ [][NextStatus]_vars

----------------------------------------------------------------------------
(* The stage classifiers on their own *)

Vocabulary ==
    {"Thyristor", "Valve", "Assembly", "Grounding", "Electrode", "DC",
     "Cable", "Reactor", "SCADA", "Spare"}

\* the phrases of 1..n words of Vocabulary, separated by one blank
RECURSIVE Phrases(_)
Phrases(n) ==
    IF n <= 1 THEN Vocabulary
    ELSE LET shorter == Phrases(n - 1)
         IN  shorter \cup {p \o " " \o w : p \in shorter, w \in Vocabulary}

\* the descriptions the spec gives as examples
Examples == {"Thyristor Valve Assembly", "Grounding Electrode"}

\* text without a keyword of either classifier
NoKeywordTexts == {"Assembly", "Steel Frame", "DC"}

\* descriptions: phrases, the examples, blank text, text without a keyword,
\* a number, bytes, nothing
Descriptions ==
    {Str(p) : p \in Phrases(MaxWords) \cup Examples \cup NoKeywordTexts
                      \cup {"", "  "}}
        \cup {Num(5), Bytes("Steel Frame"), Bytes("Spare Valve"), NaN}

InitStage ==
    /\ desc \in Descriptions
    /\ stageOut = <<>>
    /\ RecordIdle
    /\ StatusIdle
    /\ SiteIdle
    /\ CheckIdle
    /\ UtilIdle
    /\ PipeIdle

\* both classifiers of the repository, applied to one description
ClassifyStage ==
    /\ stageOut = <<>>
    /\ stageOut' = [refined |-> refined_hvdc_step(desc),
                    updated |-> updated_hvdc_step_logic(desc)]
    /\ UNCHANGED <<desc, recordVars, statusVars, siteVars, checkVars,
                   utilVars, pipeVars>>

NextStage == ClassifyStage

SpecStage == InitStage /\ [][NextStage]_vars

----------------------------------------------------------------------------
(* detect_site on its own: rows with any of the site columns, set or not *)

\* a row with some of the columns cols, each missing or marked, and with or
\* without its NO.
SiteOnlyRows ==
    {r \in UNION {[cols -> SiteMarks \cup {Num(1)}] :
                     cols \in SUBSET (SiteCols \cup {"NO."})} :
        \A c \in DOMAIN r : r[c] = Num(1) <=> c = "NO."}

InitSite ==
    /\ siteRow \in SiteOnlyRows
    /\ siteOut = ""
    /\ siteCalls = 0
    /\ siteLog = <<>>
    /\ RecordIdle
    /\ StatusIdle
    /\ StageIdle
    /\ CheckIdle
    /\ UtilIdle
    /\ PipeIdle

\* df.apply(self.detect_site, axis=1), on one row
DetectSite ==
    /\ siteCalls < MaxRuns
    /\ siteOut' = detect_site(siteRow)
    /\ siteLog' = siteLog \o detect_site_log(siteRow)
    /\ siteCalls' = siteCalls + 1
    /\ UNCHANGED <<siteRow, recordVars, statusVars, stageVars, checkVars,
                   utilVars, pipeVars>>

NextSite == DetectSite

SpecSite == InitSite /\ [][NextSite]_vars

----------------------------------------------------------------------------
(* scripts/data/validator.py: HVDCQualityChecker.                          *)
(*                                                                         *)
(* A table is a function from its column names to columns, and a column is *)
(* the sequence of its cells, one per row.  A check returns an outcome:    *)
(* out, the results it appended through _add_result; raised, the name of   *)
(* the exception that ended it ("" when it returned); ok, its return value.*)
(* The check names and messages are given in English.  A dict of the       *)
(* cfg is the sequence of its items in insertion order, which is the    *)
(* order Python iterates it in.                                            *)

\* len(d)
len(d) == IF DOMAIN d = {} THEN 0 ELSE Len(d[CHOOSE c \in DOMAIN d : TRUE])

\* how many cells of a column satisfy P
CountIf(col, P(_)) == Cardinality({i \in 1..Len(col) : P(col[i])})

\* [x for x in xs if P(x)]
Filter(xs, P(_)) == SelectSeq(xs, P)

\* ', '.join(names)
RECURSIVE join(_)
join(names) ==
    IF Len(names) = 0 THEN ""
    ELSE IF Len(names) = 1 THEN names[1]
    ELSE names[1] \o ", " \o join(Tail(names))

\* details=None
None == [c \in {} |-> NaN]

\* _add_result(check_name, status, message, details): the appended entry
Result(check_name, status, message, details) ==
    [check_name |-> check_name, status |-> status, message |-> message,
     details |-> details]

Returned(out, ok) == [out |-> out, raised |-> "", ok |-> ok]
Raised(exception) == [out |-> <<>>, raised |-> exception, ok |-> FALSE]

\* a sequence of checks run one after the other: the results of all of them
\* up to the first that raises, whose exception ends the sequence
RECURSIVE Chain(_)
Chain(outcomes) ==
    IF Len(outcomes) = 0 THEN Returned(<<>>, TRUE)
    ELSE LET first == Head(outcomes) IN
         IF first.raised # "" THEN first
         ELSE LET rest == Chain(Tail(outcomes))
              IN  [out |-> first.out \o rest.out, raised |-> rest.raised,
                   ok |-> first.ok /\ rest.ok]

\* faulty variant of check_required_columns: one result for each absent column
check_required_columns_per_column(d, required_columns) ==
    LET missing_columns == Filter(required_columns, LAMBDA c : c \notin DOMAIN d)
    IN  IF missing_columns # <<>>
        THEN Returned([i \in 1..Len(missing_columns) |->
                          Result("Required columns", "FAIL",
                                 "required columns missing: " \o missing_columns[i],
                                 [missing_columns |-> <<missing_columns[i]>>])],
                      FALSE)
        ELSE Returned(<<Result("Required columns", "PASS",
                               "all required columns exist", None)>>, TRUE)

\* check_required_columns(d, required_columns)
check_required_columns(d, required_columns) ==
    LET missing_columns == Filter(required_columns, LAMBDA c : c \notin DOMAIN d)
    IN  IF missing_columns # <<>>
        THEN Returned(<<Result("Required columns", "FAIL",
                               "required columns missing: " \o join(missing_columns),
                               [missing_columns |-> missing_columns])>>, FALSE)
        ELSE Returned(<<Result("Required columns", "PASS",
                               "all required columns exist", None)>>, TRUE)

\* a percentage, kept exact: num / den * 100 (0 when den = 0).  On the tables
\* of the model the floating-point value of the code compares with a
\* whole-number threshold as the exact value does.
Percent(num, den) == [num |-> IF den > 0 THEN num ELSE 0,
                      den |-> IF den > 0 THEN den ELSE 1]

\* p > t, for a percentage p and a threshold of t percent
PercentAbove(p, t) == 100 * p.num > t * p.den

\* f"{p:.2f}"
format_2f(p) ==
    LET h == (20000 * p.num + p.den) \div (2 * p.den)
        cents == h % 100
    IN  ToString(h \div 100) \o "."
            \o (IF cents < 10 THEN "0" ELSE "") \o ToString(cents)

\* faulty variant of check_missing_values: a percentage equal to the
\* threshold exceeds it
check_missing_values_at_threshold(d, column_name, threshold_percent) ==
    IF column_name \notin DOMAIN d
    THEN Returned(<<Result("Missing values", "WARN",
                           "'" \o column_name \o "' does not exist, check skipped",
                           [column |-> column_name])>>, TRUE)
    ELSE LET missing_count == CountIf(d[column_name], isna)
             total_count == len(d)
             missing_percent == Percent(missing_count, total_count)
             exceeded == 100 * missing_percent.num
                             >= threshold_percent * missing_percent.den
             status == IF ~exceeded THEN "PASS"
                       ELSE IF threshold_percent = 0 THEN "FAIL" ELSE "WARN"
             message == "'" \o column_name \o "' missing: "
                            \o ToString(missing_count) \o " ("
                            \o format_2f(missing_percent) \o "%)"
                            \o (IF exceeded
                                THEN " - exceeds the threshold ("
                                         \o ToString(threshold_percent) \o "%)"
                                ELSE "")
         IN  Returned(<<Result("Missing values", status, message,
                               [column |-> column_name,
                                missing_count |-> missing_count,
                                missing_percent |-> missing_percent,
                                threshold |-> threshold_percent])>>,
                      status = "PASS" \/ (status = "WARN" /\ threshold_percent > 0))

\* check_missing_values(d, column_name, threshold_percent)
check_missing_values(d, column_name, threshold_percent) ==
    IF column_name \notin DOMAIN d
    THEN Returned(<<Result("Missing values", "WARN",
                           "'" \o column_name \o "' does not exist, check skipped",
                           [column |-> column_name])>>, TRUE)
    ELSE LET missing_count == CountIf(d[column_name], isna)
             total_count == len(d)
             missing_percent == Percent(missing_count, total_count)
             exceeded == PercentAbove(missing_percent, threshold_percent)
             status == IF ~exceeded THEN "PASS"
                       ELSE IF threshold_percent = 0 THEN "FAIL" ELSE "WARN"
             message == "'" \o column_name \o "' missing: "
                            \o ToString(missing_count) \o " ("
                            \o format_2f(missing_percent) \o "%)"
                            \o (IF exceeded
                                THEN " - exceeds the threshold ("
                                         \o ToString(threshold_percent) \o "%)"
                                ELSE "")
         IN  Returned(<<Result("Missing values", status, message,
                               [column |-> column_name,
                                missing_count |-> missing_count,
                                missing_percent |-> missing_percent,
                                threshold |-> threshold_percent])>>,
                      status = "PASS" \/ (status = "WARN" /\ threshold_percent > 0))

\* two cells hold the same value (a missing value equals a missing value, as
\* in Series.duplicated and Series.unique)
same_value(a, b) == a.kind = b.kind /\ a.v = b.v

\* d[col].dtype, as pandas infers it from the cells: int64 for numbers,
\* float64 for numbers with missing values, datetime64[ns] for dates, object
\* for text, for mixed cells and for a column without rows
dtype(col) ==
    IF Len(col) = 0 THEN "object"
    ELSE IF \A i \in 1..Len(col) : col[i].kind \in {"num", "NaN"}
         THEN (IF \E i \in 1..Len(col) : isna(col[i]) THEN "float64" ELSE "int64")
    ELSE IF \A i \in 1..Len(col) : col[i].kind \in {"date", "NaN"}
         THEN "datetime64[ns]"
    ELSE "object"

\* pd.api.types.is_numeric_dtype(d[col])
is_numeric_dtype(col) == dtype(col) \in {"int64", "float64"}

\* type(d[col].iloc[0] if len(d[col]) > 0 and not pd.isna(d[col].iloc[0])
\*      else None)
sample_type(col) ==
    IF Len(col) = 0 \/ isna(col[1]) THEN "NoneType"
    ELSE IF dtype(col) = "int64" THEN "numpy.int64"
    ELSE IF dtype(col) = "float64" THEN "numpy.float64"
    ELSE IF col[1].kind = "date" THEN "Timestamp"
    ELSE IF col[1].kind = "num" THEN "int"
    ELSE IF col[1].kind = "bytes" THEN "bytes"
    ELSE "str"

\* the classes a value of class t is an instance of, among the type tags
bases(t) ==
    CASE t = "numpy.int64" -> {"numpy.int64"}
      [] t = "numpy.float64" -> {"numpy.float64", "float"}
      [] t = "Timestamp" -> {"Timestamp", "datetime"}
      [] t = "int" -> {"int"}
      [] t = "str" -> {"str"}
      [] t = "bytes" -> {"bytes"}
      [] t = "NoneType" -> {}

\* a type tag of the cfg: a class (int, str, pd.Timestamp, ...), or the
\* name of a dtype given as a string ("int64", "datetime64[ns]", ...)
ClassTag(name) == [form |-> "class", name |-> name]
NameTag(name) == [form |-> "name", name |-> name]

\* any(isinstance(sample, t) for t in expected_types): "True", "False", or
\* "TypeError" when a tag that is a string is reached before a match,
\* since isinstance() takes classes only
RECURSIVE any_isinstance(_, _)
any_isinstance(t, expected_types) ==
    IF Len(expected_types) = 0 THEN "False"
    ELSE IF Head(expected_types).form = "name" THEN "TypeError"
    ELSE IF Head(expected_types).name \in bases(t) THEN "True"
    ELSE any_isinstance(t, Tail(expected_types))

\* pd.api.types.is_dtype_equal(actual_type, t): never raises
is_dtype_equal(actual_type, tag) ==
    IF tag.form = "name" THEN tag.name = actual_type
    ELSE \/ tag.name \in {"int", "numpy.int64"} /\ actual_type = "int64"
         \/ tag.name \in {"float", "numpy.float64"} /\ actual_type = "float64"

\* one pass of the loop of check_data_types, for the item col: expected_types
check_data_types_one(d, col, expected_types) ==
    IF col \notin DOMAIN d
    THEN Returned(<<Result("Data types", "WARN",
                           "'" \o col \o "' does not exist, check skipped",
                           [column |-> col])>>, TRUE)
    ELSE LET actual_type == dtype(d[col])
             matched == any_isinstance(sample_type(d[col]), expected_types)
         IN  IF matched = "TypeError" THEN Raised("TypeError")
             ELSE IF matched = "False"
                     /\ ~\E i \in 1..Len(expected_types) :
                            is_dtype_equal(actual_type, expected_types[i])
             THEN Returned(<<Result("Data types", "FAIL",
                                    "'" \o col \o "' type mismatch, actual: "
                                        \o actual_type,
                                    [column |-> col, expected |-> expected_types,
                                     actual |-> actual_type])>>, FALSE)
             ELSE Returned(<<Result("Data types", "PASS",
                                    "'" \o col \o "' type matches: " \o actual_type,
                                    [column |-> col])>>, TRUE)

\* check_data_types(d, column_types)
check_data_types(d, column_types) ==
    Chain([i \in 1..Len(column_types) |->
              check_data_types_one(d, column_types[i].column,
                                   column_types[i].types)])

\* ranges.get("min", float("-inf")) and ranges.get("max", float("inf")), as text
bound_text(ranges, key, default) ==
    IF key \in DOMAIN ranges THEN ToString(ranges[key]) ELSE default

\* faulty variant of out_of_range: a value equal to a bound is outside
out_of_range_open(x, ranges) ==
    \/ "min" \in DOMAIN ranges /\ x.v <= ranges["min"]
    \/ "max" \in DOMAIN ranges /\ x.v >= ranges["max"]

\* x < min_val or x > max_val, for a number x
out_of_range(x, ranges) ==
    \/ "min" \in DOMAIN ranges /\ x.v < ranges["min"]
    \/ "max" \in DOMAIN ranges /\ x.v > ranges["max"]

\* one pass of the loop of check_value_ranges, for the item col: ranges
check_value_ranges_one(d, col, ranges) ==
    IF col \notin DOMAIN d
    THEN Returned(<<Result("Value ranges", "WARN",
                           "'" \o col \o "' does not exist, check skipped",
                           [column |-> col])>>, TRUE)
    ELSE IF ~is_numeric_dtype(d[col])
    THEN Returned(<<Result("Value ranges", "FAIL",
                           "'" \o col \o "' is not numeric",
                           [column |-> col])>>, FALSE)
    ELSE LET out_of_range_count ==
                 CountIf(d[col], LAMBDA x : notna(x) /\ out_of_range(x, ranges))
             interval == "(" \o bound_text(ranges, "min", "-inf") \o " ~ "
                             \o bound_text(ranges, "max", "inf") \o ")"
         IN  IF out_of_range_count > 0
             THEN Returned(<<Result("Value ranges", "FAIL",
                                    "'" \o col \o "': "
                                        \o ToString(out_of_range_count)
                                        \o " values outside the range " \o interval,
                                    [column |-> col,
                                     min |-> bound_text(ranges, "min", "-inf"),
                                     max |-> bound_text(ranges, "max", "inf"),
                                     out_of_range_count |-> out_of_range_count])>>,
                           FALSE)
             ELSE Returned(<<Result("Value ranges", "PASS",
                                    "'" \o col \o "': all values within the range "
                                        \o interval,
                                    [column |-> col])>>, TRUE)

\* check_value_ranges(d, range_checks)
check_value_ranges(d, range_checks) ==
    Chain([i \in 1..Len(range_checks) |->
              check_value_ranges_one(d, range_checks[i].column,
                                     range_checks[i].ranges)])

\* faulty variant of duplicated: every row of a repeated value is marked
duplicated_every(col, i) ==
    \E j \in 1..Len(col) : j # i /\ same_value(col[j], col[i])

\* d[col].duplicated(): row i repeats the value of an earlier row
duplicated(col, i) == \E j \in 1..(i - 1) : same_value(col[j], col[i])

\* col[mask]: the cells of the rows that satisfy mask, in row order
rows_where(col, mask(_)) ==
    LET rows == SelectSeq([i \in 1..Len(col) |-> i], mask)
    IN  [k \in 1..Len(rows) |-> col[rows[k]]]

\* Series.unique(): the distinct values, in the order of their first occurrence
unique(cells) ==
    rows_where(cells, LAMBDA i : ~duplicated(cells, i))

\* faulty variant of check_unique_values_one: an absent column fails the check
check_unique_values_one_absent_fails(d, col) ==
    IF col \notin DOMAIN d
    THEN Returned(<<Result("Unique values", "FAIL",
                           "'" \o col \o "' does not exist",
                           [column |-> col])>>, FALSE)
    ELSE LET duplicate_count ==
                 Cardinality({i \in 1..Len(d[col]) : duplicated(d[col], i)})
         IN  IF duplicate_count > 0
             THEN Returned(<<Result("Unique values", "FAIL",
                                    "'" \o col \o "' has "
                                        \o ToString(duplicate_count)
                                        \o " duplicate values",
                                    [column |-> col,
                                     duplicate_count |-> duplicate_count,
                                     duplicate_values |->
                                         unique(rows_where(d[col],
                                             LAMBDA i : duplicated(d[col], i)))])>>,
                           FALSE)
             ELSE Returned(<<Result("Unique values", "PASS",
                                    "'" \o col \o "': all values are unique",
                                    [column |-> col])>>, TRUE)

\* one pass of the loop of check_unique_values, for the column col
check_unique_values_one(d, col) ==
    IF col \notin DOMAIN d
    THEN Returned(<<Result("Unique values", "WARN",
                           "'" \o col \o "' does not exist, check skipped",
                           [column |-> col])>>, TRUE)
    ELSE LET duplicate_count ==
                 Cardinality({i \in 1..Len(d[col]) : duplicated(d[col], i)})
         IN  IF duplicate_count > 0
             THEN Returned(<<Result("Unique values", "FAIL",
                                    "'" \o col \o "' has "
                                        \o ToString(duplicate_count)
                                        \o " duplicate values",
                                    [column |-> col,
                                     duplicate_count |-> duplicate_count,
                                     duplicate_values |->
                                         unique(rows_where(d[col],
                                             LAMBDA i : duplicated(d[col], i)))])>>,
                           FALSE)
             ELSE Returned(<<Result("Unique values", "PASS",
                                    "'" \o col \o "': all values are unique",
                                    [column |-> col])>>, TRUE)

\* check_unique_values(d, unique_columns)
check_unique_values(d, unique_columns) ==
    Chain([i \in 1..Len(unique_columns) |->
              check_unique_values_one(d, unique_columns[i])])

\* faulty variant of check_date_sequence_one: equal dates are out of order
check_date_sequence_one_strict(d, before_col, after_col) ==
    IF before_col \notin DOMAIN d \/ after_col \notin DOMAIN d
    THEN Returned(<<Result("Date sequence", "WARN",
                           "'" \o before_col \o "' or '" \o after_col
                               \o "' does not exist, check skipped",
                           [before_column |-> before_col,
                            after_column |-> after_col])>>, TRUE)
    ELSE LET before_dates == [i \in 1..len(d) |-> to_datetime(d[before_col][i])]
             after_dates == [i \in 1..len(d) |-> to_datetime(d[after_col][i])]
             invalid_count ==
                 Cardinality({i \in 1..len(d) :
                                 /\ notna(before_dates[i])
                                 /\ notna(after_dates[i])
                                 /\ before_dates[i].v >= after_dates[i].v})
         IN  IF invalid_count > 0
             THEN Returned(<<Result("Date sequence", "FAIL",
                                    "'" \o before_col \o "' is later than '"
                                        \o after_col \o "' in "
                                        \o ToString(invalid_count) \o " rows",
                                    [before_column |-> before_col,
                                     after_column |-> after_col,
                                     invalid_count |-> invalid_count])>>, FALSE)
             ELSE Returned(<<Result("Date sequence", "PASS",
                                    "'" \o before_col \o "' and '" \o after_col
                                        \o "' are in order",
                                    [before_column |-> before_col,
                                     after_column |-> after_col])>>, TRUE)

\* one pass of the loop of check_date_sequence, for the item
\* before_col: after_col
check_date_sequence_one(d, before_col, after_col) ==
    IF before_col \notin DOMAIN d \/ after_col \notin DOMAIN d
    THEN Returned(<<Result("Date sequence", "WARN",
                           "'" \o before_col \o "' or '" \o after_col
                               \o "' does not exist, check skipped",
                           [before_column |-> before_col,
                            after_column |-> after_col])>>, TRUE)
    ELSE LET before_dates == [i \in 1..len(d) |-> to_datetime(d[before_col][i])]
             after_dates == [i \in 1..len(d) |-> to_datetime(d[after_col][i])]
             invalid_count ==
                 Cardinality({i \in 1..len(d) :
                                 /\ notna(before_dates[i])
                                 /\ notna(after_dates[i])
                                 /\ before_dates[i].v > after_dates[i].v})
         IN  IF invalid_count > 0
             THEN Returned(<<Result("Date sequence", "FAIL",
                                    "'" \o before_col \o "' is later than '"
                                        \o after_col \o "' in "
                                        \o ToString(invalid_count) \o " rows",
                                    [before_column |-> before_col,
                                     after_column |-> after_col,
                                     invalid_count |-> invalid_count])>>, FALSE)
             ELSE Returned(<<Result("Date sequence", "PASS",
                                    "'" \o before_col \o "' and '" \o after_col
                                        \o "' are in order",
                                    [before_column |-> before_col,
                                     after_column |-> after_col])>>, TRUE)

\* check_date_sequence(d, date_columns)
check_date_sequence(d, date_columns) ==
    Chain([i \in 1..Len(date_columns) |->
              check_date_sequence_one(d, date_columns[i].before,
                                      date_columns[i].after)])

\* x not in allowed_values
not_allowed(x, allowed_values) ==
    ~(x.kind = "str" /\ \E k \in 1..Len(allowed_values) : allowed_values[k] = x.v)

\* one pass of the loop of check_categorical_values, for the item
\* col: allowed_values.  The invalid values are counted on the rows that are
\* not null; d[col][invalid_values] then indexes the whole column with that
\* shorter boolean Series, which pandas refuses with an IndexingError when
\* the column has a null row.
check_categorical_values_one(d, col, allowed_values) ==
    IF col \notin DOMAIN d
    THEN Returned(<<Result("Category values", "WARN",
                           "'" \o col \o "' does not exist, check skipped",
                           [column |-> col])>>, TRUE)
    ELSE LET invalid(i) == notna(d[col][i])
                               /\ not_allowed(d[col][i], allowed_values)
             invalid_count == Cardinality({i \in 1..Len(d[col]) : invalid(i)})
         IN  IF invalid_count > 0
             THEN IF \E i \in 1..Len(d[col]) : isna(d[col][i])
                  THEN Raised("IndexingError")
                  ELSE Returned(<<Result("Category values", "FAIL",
                                    "'" \o col \o "' has " \o ToString(invalid_count)
                                        \o " values that are not allowed",
                                    [column |-> col,
                                     invalid_count |-> invalid_count,
                                     invalid_values |->
                                         unique(rows_where(d[col], invalid)),
                                     allowed_values |-> allowed_values])>>, FALSE)
             ELSE Returned(<<Result("Category values", "PASS",
                                    "'" \o col \o "': all values are allowed",
                                    [column |-> col])>>, TRUE)

\* check_categorical_values(d, category_checks)
check_categorical_values(d, category_checks) ==
    Chain([i \in 1..Len(category_checks) |->
              check_categorical_values_one(d, category_checks[i].column,
                                           category_checks[i].allowed_values)])

\* a rule group that the cfg does not have
Skipped == Returned(<<>>, TRUE)

\* the loop of validate_dataframe over config["missing_value_checks"]
missing_value_checks(d, entries) ==
    Chain([i \in 1..Len(entries) |->
              check_missing_values(d, entries[i].column,
                  IF "threshold" \in DOMAIN entries[i]
                  THEN entries[i].threshold ELSE 0)])

\* faulty variant of run_checks: the type checks run before the
\* missing-value checks
run_checks_types_first(d, cfg) ==
    Chain(<<
        IF "required_columns" \in DOMAIN cfg
        THEN check_required_columns(d, cfg.required_columns) ELSE Skipped,
        IF "data_type_checks" \in DOMAIN cfg
        THEN check_data_types(d, cfg.data_type_checks) ELSE Skipped,
        IF "missing_value_checks" \in DOMAIN cfg
        THEN missing_value_checks(d, cfg.missing_value_checks) ELSE Skipped,
        IF "range_checks" \in DOMAIN cfg
        THEN check_value_ranges(d, cfg.range_checks) ELSE Skipped,
        IF "unique_columns" \in DOMAIN cfg
        THEN check_unique_values(d, cfg.unique_columns) ELSE Skipped,
        IF "date_sequence_checks" \in DOMAIN cfg
        THEN check_date_sequence(d, cfg.date_sequence_checks) ELSE Skipped,
        IF "category_checks" \in DOMAIN cfg
        THEN check_categorical_values(d, cfg.category_checks) ELSE Skipped>>)

\* faulty variant of run_checks: the key categorical_checks is read as
\* category_checks is
run_checks_reading_categorical(d, cfg) ==
    Chain(<<
        IF "required_columns" \in DOMAIN cfg
        THEN check_required_columns(d, cfg.required_columns) ELSE Skipped,
        IF "missing_value_checks" \in DOMAIN cfg
        THEN missing_value_checks(d, cfg.missing_value_checks) ELSE Skipped,
        IF "data_type_checks" \in DOMAIN cfg
        THEN check_data_types(d, cfg.data_type_checks) ELSE Skipped,
        IF "range_checks" \in DOMAIN cfg
        THEN check_value_ranges(d, cfg.range_checks) ELSE Skipped,
        IF "unique_columns" \in DOMAIN cfg
        THEN check_unique_values(d, cfg.unique_columns) ELSE Skipped,
        IF "date_sequence_checks" \in DOMAIN cfg
        THEN check_date_sequence(d, cfg.date_sequence_checks) ELSE Skipped,
        IF "category_checks" \in DOMAIN cfg
        THEN check_categorical_values(d, cfg.category_checks) ELSE Skipped,
        IF "categorical_checks" \in DOMAIN cfg
        THEN check_categorical_values(d, cfg.categorical_checks) ELSE Skipped>>)

\* the checks of validate_dataframe(df, config), in the order of its body
run_checks(d, cfg) ==
    Chain(<<
        IF "required_columns" \in DOMAIN cfg
        THEN check_required_columns(d, cfg.required_columns) ELSE Skipped,
        IF "missing_value_checks" \in DOMAIN cfg
        THEN missing_value_checks(d, cfg.missing_value_checks) ELSE Skipped,
        IF "data_type_checks" \in DOMAIN cfg
        THEN check_data_types(d, cfg.data_type_checks) ELSE Skipped,
        IF "range_checks" \in DOMAIN cfg
        THEN check_value_ranges(d, cfg.range_checks) ELSE Skipped,
        IF "unique_columns" \in DOMAIN cfg
        THEN check_unique_values(d, cfg.unique_columns) ELSE Skipped,
        IF "date_sequence_checks" \in DOMAIN cfg
        THEN check_date_sequence(d, cfg.date_sequence_checks) ELSE Skipped,
        IF "category_checks" \in DOMAIN cfg
        THEN check_categorical_values(d, cfg.category_checks) ELSE Skipped>>)

\* faulty variant of inputs_after_validation: the date-sequence check
\* converts its columns in the table, as process_data does with its date
\* columns
inputs_after_validation_coercing(d, cfg) ==
    LET converted ==
            IF "date_sequence_checks" \notin DOMAIN cfg THEN {}
            ELSE UNION {{cfg.date_sequence_checks[k].before,
                         cfg.date_sequence_checks[k].after} :
                           k \in 1..Len(cfg.date_sequence_checks)}
    IN  [df |-> [c \in DOMAIN d |->
                    IF c \in converted
                    THEN [i \in 1..Len(d[c]) |-> to_datetime(d[c][i])]
                    ELSE d[c]],
         config |-> cfg]

\* df and config as validate_dataframe(df, config) leaves them: no check
\* assigns to a column of df or to a key of config; the conversions of the
\* checks (pd.to_datetime, the masks, apply) build new objects
inputs_after_validation(d, cfg) == [df |-> d, config |-> cfg]

\* faulty variant of validate_dataframe: the results of earlier calls are kept
validate_dataframe_keeping(self_results, d, cfg) ==
    LET checks == run_checks(d, cfg)
    IN  [validation_results |-> self_results \o checks.out,
         raised |-> checks.raised]

\* validate_dataframe(df, config) on a checker whose validation_results is
\* self_results: the list is emptied, the checks append to it, and it is
\* returned as the report unless a check raised
validate_dataframe(self_results, d, cfg) ==
    LET checks == run_checks(d, cfg)
    IN  [validation_results |-> <<>> \o checks.out,
         raised |-> checks.raised]

\* faulty variant of quality_status: a warning fails the run
quality_status_warn_fails(validation_results_df) ==
    IF Len(validation_results_df) > 0
    THEN IF \E i \in 1..Len(validation_results_df) :
                validation_results_df[i].status \in {"FAIL", "WARN"}
         THEN "fail" ELSE "pass"
    ELSE "no results"

\* pipeline.py run_pipeline, step 3: what it logs about the report: an
\* error when "FAIL" is among the statuses, an info otherwise, a warning for
\* an empty report
quality_status(validation_results_df) ==
    IF Len(validation_results_df) > 0
    THEN IF \E i \in 1..Len(validation_results_df) :
                validation_results_df[i].status = "FAIL"
         THEN "fail" ELSE "pass"
    ELSE "no results"

----------------------------------------------------------------------------
(* The tables and configs handed to the quality checker *)

\* the columns 1, 2, ..., n; all cells equal; one cell of a column made null
Serial(n) == [i \in 1..n |-> Num(i)]
Constant(n, cell) == [i \in 1..n |-> cell]
WithNull(col, i) == [j \in 1..Len(col) |-> IF j = i THEN NaN ELSE col[j]]
WithLast(col, cell) == [j \in 1..Len(col) |-> IF j = Len(col) THEN cell ELSE col[j]]

\* a column that the table does not have
Absent == <<[kind |-> "absent", v |-> 0]>>

\* NO.: unique numbers, the last or the first of them null, or duplicates
NoColumns(n) ==
    {Serial(n), WithNull(Serial(n), n), WithNull(Serial(n), 1),
     Constant(n, Num(1))}

\* ATA: dates, one of them null, or text that is no date
AtaColumns(n) ==
    {Constant(n, Date(1)), WithNull(Constant(n, Date(1)), 2),
     Constant(n, Str("n/a"))}

\* MOSB: dates before ATA, or the day of ATA
MosbColumns(n) == {Constant(n, Date(0)), Constant(n, Date(1))}

\* the stage label: valid, with an invalid last label, and with a null too
LabelColumns(n) ==
    {Constant(n, Str("Converter")),
     WithLast(Constant(n, Str("Converter")), Str("Unknown")),
     WithNull(WithLast(Constant(n, Str("Converter")), Str("Unknown")), 1)}

\* the columns of final_df that the checks of the model name
CheckedColumns ==
    {"NO.", "ATA", "MOSB", "HVDC_STEP_Label", "LT_Days", "LT_Status", "VENDOR"}

\* a table of n rows; LT_Days, LT_Status and VENDOR exist together or not
MakeTable(n, no, ata, mosb, label, rest) ==
    LET all == [c \in CheckedColumns |->
                   CASE c = "NO." -> no
                     [] c = "ATA" -> ata
                     [] c = "MOSB" -> mosb
                     [] c = "HVDC_STEP_Label" -> label
                     [] c = "LT_Days" ->
                            IF rest THEN WithNull(Constant(n, Num(10)), 3)
                            ELSE Absent
                     [] c = "LT_Status" ->
                            IF rest THEN Constant(n, Str("ON_TRACK")) ELSE Absent
                     [] c = "VENDOR" ->
                            IF rest THEN Constant(n, Str("A")) ELSE Absent]
    IN  [c \in {k \in CheckedColumns : all[k] # Absent} |-> all[c]]

TablesOf(n) ==
    {MakeTable(n, no, ata, mosb, label, rest) :
        no \in NoColumns(n) \cup {Absent},
        ata \in AtaColumns(n) \cup {Absent},
        mosb \in MosbColumns(n) \cup {Absent},
        label \in LabelColumns(n) \cup {Absent},
        rest \in BOOLEAN}

\* tables without rows, and tables of MaxRows rows
Tables == TablesOf(0) \cup TablesOf(MaxRows)

\* processed_df of run_pipeline: it has the columns of final_df, at least
\* one row, and no row without a number in NO.
IsProcessed(d) ==
    /\ DOMAIN d = CheckedColumns
    /\ len(d) > 0
    /\ \A i \in 1..len(d) : notna(d["NO."][i])

hvdc_step_labels_list ==
    <<"Converter", "Transmission", "Filter/Reactor", "Control/Protection",
      "Grounding", "Spare/Maintenance", "Other">>

\* pipeline.py _get_default_validation_config()
default_validation_config ==
    [missing_value_checks |-> <<
         [column |-> "NO.", threshold_percent |-> 0],
         [column |-> "ATA", threshold_percent |-> 5],
         [column |-> "MOSB", threshold_percent |-> 5],
         [column |-> "LT_Days", threshold_percent |-> 10],
         [column |-> "HVDC_STEP_Label", threshold_percent |-> 0]>>,
     data_type_checks |-> <<
         [column |-> "NO.",
          types |-> <<NameTag("int64"), NameTag("float64"), ClassTag("int"),
                      ClassTag("float")>>],
         [column |-> "ATA",
          types |-> <<NameTag("datetime64[ns]"), ClassTag("Timestamp"),
                      ClassTag("datetime")>>],
         [column |-> "MOSB",
          types |-> <<NameTag("datetime64[ns]"), ClassTag("Timestamp"),
                      ClassTag("datetime")>>],
         [column |-> "LT_Days",
          types |-> <<NameTag("float64"), NameTag("int64"), ClassTag("float"),
                      ClassTag("int")>>],
         [column |-> "HVDC_STEP_Label", types |-> <<ClassTag("str")>>],
         [column |-> "LT_Status", types |-> <<ClassTag("str")>>],
         [column |-> "VENDOR", types |-> <<ClassTag("str")>>]>>,
     categorical_checks |-> <<
         [column |-> "HVDC_STEP_Label",
          allowed_values |-> hvdc_step_labels_list],
         [column |-> "LT_Status",
          allowed_values |-> <<"ON_TRACK", "CAUTION", "DELAYED",
                               "NOT_ARRIVED">>]>>]

\* validator.py, validation_config of its self-test
validation_config ==
    [required_columns |->
         <<"NO.", "ATA", "MOSB", "LT_Days", "VENDOR", "HVDC_STEP_Label">>,
     missing_value_checks |-> <<
         [column |-> "NO.", threshold |-> 0],
         [column |-> "ATA", threshold |-> 5],
         [column |-> "LT_Days", threshold |-> 25]>>,
     data_type_checks |-> <<
         [column |-> "NO.",
          types |-> <<ClassTag("int"), ClassTag("float"),
                      ClassTag("numpy.int64"), ClassTag("numpy.float64")>>],
         [column |-> "ATA_dt",
          types |-> <<ClassTag("Timestamp"), ClassTag("datetime")>>],
         [column |-> "VENDOR", types |-> <<ClassTag("str")>>]>>,
     range_checks |-> <<
         [column |-> "LT_Days", ranges |-> [min |-> 0, max |-> 365]]>>,
     unique_columns |-> <<"NO.">>,
     date_sequence_checks |-> <<[before |-> "ATA_dt", after |-> "MOSB_dt"]>>,
     category_checks |-> <<
         [column |-> "HVDC_STEP_Label",
          allowed_values |-> hvdc_step_labels_list]>>]

\* the config keys validate_dataframe looks for, in the order of its body
rule_groups ==
    <<"required_columns", "missing_value_checks", "data_type_checks",
      "range_checks", "unique_columns", "date_sequence_checks",
      "category_checks">>

\* a config with every rule group, each with a column that no table has
all_rules ==
    [required_columns |-> <<"NO.", "ATA", "ATA_dt">>,
     missing_value_checks |-> <<
         [column |-> "NO.", threshold |-> 0],
         [column |-> "ATA", threshold |-> 20],
         [column |-> "ATA_dt", threshold |-> 0]>>,
     data_type_checks |-> <<
         [column |-> "NO.",
          types |-> <<ClassTag("int"), ClassTag("float"),
                      ClassTag("numpy.int64"), ClassTag("numpy.float64")>>],
         [column |-> "ATA_dt", types |-> <<ClassTag("Timestamp")>>],
         [column |-> "HVDC_STEP_Label", types |-> <<ClassTag("str")>>]>>,
     range_checks |-> <<
         [column |-> "NO.", ranges |-> [min |-> 1, max |-> 4]],
         [column |-> "ATA_dt", ranges |-> [min |-> 0]],
         [column |-> "LT_Days", ranges |-> [max |-> 10]]>>,
     unique_columns |-> <<"NO.", "ATA_dt">>,
     date_sequence_checks |-> <<
         [before |-> "ATA", after |-> "MOSB"],
         [before |-> "ATA_dt", after |-> "MOSB_dt"]>>,
     category_checks |-> <<
         [column |-> "ATA_dt", allowed_values |-> <<"2024-01-01">>],
         [column |-> "HVDC_STEP_Label",
          allowed_values |-> hvdc_step_labels_list]>>]

\* the config cfg, cut down to the keys in keys
Restrict(cfg, keys) == [k \in keys \cap DOMAIN cfg |-> cfg[k]]

\* threshold percentages of the missing-value entries
Thresholds == {0, 5, 20, 25}

\* missing-value entries for NO. and ATA, the threshold under the key that
\* validate_dataframe reads, or under the key of the pipeline's default config
ThresholdConfigs ==
    {[missing_value_checks |-> <<[column |-> "NO.", threshold |-> t],
                                 [column |-> "ATA", threshold |-> t]>>] :
        t \in Thresholds}
    \cup
    {[missing_value_checks |-> <<[column |-> "NO.", threshold_percent |-> t],
                                 [column |-> "ATA", threshold_percent |-> t]>>] :
        t \in Thresholds}

\* lists of type tags: a class before a dtype name, a dtype name alone,
\* classes alone, no tag
TagLists ==
    {<<ClassTag("float"), NameTag("float64")>>,
     <<NameTag("object")>>,
     <<ClassTag("str"), ClassTag("Timestamp")>>,
     <<>>}

\* required columns: none, one, two
RequiredConfigs ==
    {[required_columns |-> cols] : cols \in {<<>>, <<"NO.">>, <<"NO.", "ATA">>}}

TypeConfigs ==
    {[data_type_checks |-> <<[column |-> "NO.", types |-> tags],
                             [column |-> "ATA", types |-> tags],
                             [column |-> "HVDC_STEP_Label", types |-> tags]>>] :
        tags \in TagLists}

\* ranges with one bound only, on a column of numbers, and a range on a
\* column of dates or text
RangeConfigs ==
    {[range_checks |-> <<[column |-> "NO.", ranges |-> [min |-> 2]],
                         [column |-> "ATA", ranges |-> [min |-> 0, max |-> 1]],
                         [column |-> "LT_Days", ranges |-> [max |-> 9]]>>]}

\* uniqueness of a column of numbers, of dates and of labels
UniqueConfigs ==
    {[unique_columns |-> <<"NO.", "ATA", "HVDC_STEP_Label">>]}

\* a pair of date columns in which the first is the later one
DateConfigs ==
    {[date_sequence_checks |-> <<[before |-> "MOSB", after |-> "ATA"]>>]}

\* a uniqueness rule next to allow-lists under the key of the pipeline's
\* default config
OtherKeyConfigs ==
    {[unique_columns |-> <<"NO.">>,
      categorical_checks |-> default_validation_config.categorical_checks]}

\* the configs: none of the groups, one, all but one, all, the two configs
\* of the source, and the required-column, threshold and type-tag configs
Configs ==
    {Restrict(all_rules, {})}
    \cup {Restrict(all_rules, {rule_groups[i]}) : i \in 1..Len(rule_groups)}
    \cup {Restrict(all_rules, DOMAIN all_rules \ {rule_groups[i]}) :
             i \in 1..Len(rule_groups)}
    \cup {all_rules, default_validation_config, validation_config}
    \cup RequiredConfigs
    \cup ThresholdConfigs
    \cup TypeConfigs
    \cup RangeConfigs
    \cup UniqueConfigs
    \cup DateConfigs
    \cup OtherKeyConfigs

----------------------------------------------------------------------------
(* One validation run: validate_dataframe, and step 3 of run_pipeline *)

InitValidate ==
    /\ table \in Tables
    /\ config \in Configs
    /\ validation_results = <<>>
    /\ report = <<>>
    /\ raised = ""
    /\ calls = <<>>
    /\ overall = ""
    /\ RecordIdle
    /\ StatusIdle
    /\ StageIdle
    /\ SiteIdle
    /\ UtilIdle
    /\ PipeIdle

\* checker.validate_dataframe(table, cfg)
Validate(cfg) ==
    LET run == validate_dataframe(validation_results, table, cfg) IN
    /\ validation_results' = run.validation_results
    /\ raised' = run.raised
    /\ report' = IF run.raised = "" THEN run.validation_results ELSE report
    /\ table' = inputs_after_validation(table, cfg).df
    /\ config' = inputs_after_validation(table, cfg).config
    /\ calls' = Append(calls, "validate_dataframe")
    /\ UNCHANGED <<overall, recordVars, statusVars, stageVars, siteVars,
                   utilVars, pipeVars>>

ValidateDataframe ==
    /\ calls = <<>>
    /\ Validate(config)

\* pipeline.py run_pipeline, step 3: a new HVDCQualityChecker validates
\* processed_df, and the statuses of the report decide what is logged; an
\* exception leaves the try block and run_pipeline returns False
RunQualityCheck ==
    /\ calls = <<>>
    /\ IsProcessed(table)
    /\ LET run == validate_dataframe(<<>>, table, config) IN
       /\ validation_results' = run.validation_results
       /\ raised' = run.raised
       /\ report' = IF run.raised = "" THEN run.validation_results ELSE report
       /\ overall' = IF run.raised = "" THEN quality_status(run.validation_results)
                     ELSE "aborted"
    /\ table' = inputs_after_validation(table, config).df
    /\ config' = inputs_after_validation(table, config).config
    /\ calls' = <<"run_pipeline">>
    /\ UNCHANGED <<recordVars, statusVars, stageVars, siteVars, utilVars, pipeVars>>

NextValidate ==
    \/ ValidateDataframe
    \/ RunQualityCheck

SpecValidate == InitValidate /\ [][NextValidate]_vars

----------------------------------------------------------------------------
(* The life of one checker: validate_dataframe and direct check_* calls *)

\* the table of the validator's self-test; a table that lacks columns and
\* has an invalid label; a table without rows
CheckerTables ==
    {MakeTable(MaxRows, WithNull(Serial(MaxRows), MaxRows),
               WithNull(Constant(MaxRows, Date(1)), 2),
               Constant(MaxRows, Date(1)),
               Constant(MaxRows, Str("Converter")), TRUE),
     MakeTable(MaxRows, Absent, Constant(MaxRows, Date(1)),
               Constant(MaxRows, Date(0)),
               WithLast(Constant(MaxRows, Str("Converter")), Str("Unknown")),
               FALSE),
     MakeTable(0, <<>>, <<>>, <<>>, <<>>, TRUE)}

CheckerConfigs ==
    {Restrict(all_rules, {}),
     Restrict(all_rules, {"required_columns", "unique_columns"}),
     validation_config}

InitChecker ==
    /\ table \in CheckerTables
    /\ config = NoRow
    /\ validation_results = <<>>
    /\ report = <<>>
    /\ raised = ""
    /\ calls = <<>>
    /\ overall = ""
    /\ RecordIdle
    /\ StatusIdle
    /\ StageIdle
    /\ SiteIdle
    /\ UtilIdle
    /\ PipeIdle

\* validate_dataframe on a checker that has served calls before
Revalidate ==
    \E cfg \in CheckerConfigs :
        /\ Len(calls) < MaxCalls
        /\ Validate(cfg)

\* a check_* method called on the checker directly: its results are
\* appended to validation_results; nothing is returned as a report
Direct(method, outcome) ==
    /\ validation_results' = validation_results \o outcome.out
    /\ raised' = outcome.raised
    /\ calls' = Append(calls, method)
    /\ UNCHANGED <<table, config, report, overall,
                   recordVars, statusVars, stageVars, siteVars,
                   utilVars, pipeVars>>

CheckRequiredColumns ==
    \E required_columns \in {<<"NO.">>, <<"NO.", "ATA_dt", "MOSB_dt">>} :
        /\ Len(calls) < MaxCalls
        /\ Direct("check_required_columns",
                  check_required_columns(table, required_columns))

CheckMissingValues ==
    \E column_name \in {"NO.", "ATA_dt"}, threshold_percent \in {0, 20} :
        /\ Len(calls) < MaxCalls
        /\ Direct("check_missing_values",
                  check_missing_values(table, column_name, threshold_percent))

CheckDataTypes ==
    \E column_types \in {all_rules.data_type_checks,
                         default_validation_config.data_type_checks} :
        /\ Len(calls) < MaxCalls
        /\ Direct("check_data_types", check_data_types(table, column_types))

CheckValueRanges ==
    /\ Len(calls) < MaxCalls
    /\ Direct("check_value_ranges",
              check_value_ranges(table, all_rules.range_checks))

CheckUniqueValues ==
    /\ Len(calls) < MaxCalls
    /\ Direct("check_unique_values",
              check_unique_values(table, all_rules.unique_columns))

CheckDateSequence ==
    /\ Len(calls) < MaxCalls
    /\ Direct("check_date_sequence",
              check_date_sequence(table, all_rules.date_sequence_checks))

CheckCategoricalValues ==
    /\ Len(calls) < MaxCalls
    /\ Direct("check_categorical_values",
              check_categorical_values(table, all_rules.category_checks))

NextChecker ==
    \/ Revalidate
    \/ CheckRequiredColumns
    \/ CheckMissingValues
    \/ CheckDataTypes
    \/ CheckValueRanges
    \/ CheckUniqueValues
    \/ CheckDateSequence
    \/ CheckCategoricalValues

SpecChecker == InitChecker /\ [][NextChecker]_vars

----------------------------------------------------------------------------
(* Running again: process_data on its own result, validate_dataframe on    *)
(* the table and config of its previous run                                *)

\* milestone cells: the arrival and the site delivery are missing, a date
\* or text; customs start and warehouse exit are missing or the first day
RerunMilestoneRows ==
    {ms \in MilestoneRows :
        /\ ms["Customs Start"] \in {NaN, Date(0)}
        /\ ms["DSV Outdoor"] \in {NaN, Date(0)}}

RerunConfigs == {all_rules, validation_config, default_validation_config}

InitRerun ==
    /\ raw \in {Record(d, sites, ms) :
                  d \in RecordDescs, sites \in TrackedSiteRows,
                  ms \in RerunMilestoneRows}
    /\ df = NoRow
    /\ runs = 0
    /\ final = NoRow
    /\ table \in CheckerTables
    /\ config \in RerunConfigs
    /\ validation_results = <<>>
    /\ report = <<>>
    /\ raised = ""
    /\ calls = <<>>
    /\ overall = ""
    /\ StatusIdle
    /\ StageIdle
    /\ SiteIdle
    /\ UtilIdle
    /\ PipeIdle

\* the first process_data on the loaded table
ProcessFirst ==
    /\ runs = 0
    /\ RunLogisticsMapper

\* validate_dataframe once more, with the table and config of the run before
ValidateAgain ==
    /\ calls # <<>>
    /\ Len(calls) < MaxCalls
    /\ Validate(config)

NextRerun ==
    \/ ProcessFirst
    \/ Reprocess
    \/ ValidateDataframe
    \/ ValidateAgain

SpecRerun == InitRerun /\ [][NextRerun]_vars

----------------------------------------------------------------------------
(* Step 2 of automation/pipeline.py run_pipeline: the mapper on a loaded   *)
(* table that may lack columns                                             *)

\* a loaded record: each of NO., ATA, MOSB and SUB DESCRIPTION is a column
\* of the table or not; NO. holds nothing, a number below or above the
\* filter, or text; ATA and MOSB hold nothing, a date or text
LoadedCells(c) ==
    CASE c = "NO." -> {NaN, Num(1), Num(max_no_filter + 1), Str("n/a")}
      [] c \in {"ATA", "MOSB"} -> {NaN, Str("n/a")} \cup Dates
      [] c = "SUB DESCRIPTION" -> {NaN} \cup RecordDescs

LoadedRecords ==
    {r \in UNION {[cols -> UNION {LoadedCells(c) : c \in cols}] :
                     cols \in SUBSET {"NO.", "ATA", "MOSB", "SUB DESCRIPTION"}} :
        \A c \in DOMAIN r : r[c] \in LoadedCells(c)}

InitMapping ==
    /\ raw \in LoadedRecords
    /\ df = NoRow
    /\ runs = 0
    /\ final = NoRow
    /\ StatusIdle
    /\ StageIdle
    /\ SiteIdle
    /\ CheckIdle
    /\ UtilIdle
    /\ PipeIdle

\* mapper.process_data(), and what run_pipeline does with processed_df: an
\* exception leaves the try block and run_pipeline returns False; an empty
\* table is logged as an error and run_pipeline returns False
RunMapping ==
    /\ calls = <<>>
    /\ LET exception == mapper_process_data_raises(raw)
           processed_df == IF exception = "" THEN mapper_process_data(raw)
                           ELSE NoRow
       IN  /\ raised' = exception
           /\ final' = processed_df
           /\ overall' = IF exception # "" THEN "aborted"
                         ELSE IF processed_df = NoRow THEN "mapping empty"
                         ELSE "mapped"
    /\ calls' = <<"process_data">>
    /\ UNCHANGED <<raw, df, runs, table, config, validation_results, report,
                   statusVars, stageVars, siteVars,
                   utilVars, pipeVars>>

NextMapping == RunMapping

SpecMapping == InitMapping /\ [][NextMapping]_vars

----------------------------------------------------------------------------
(* scripts/core/utils.py: safe_divide *)

RECURSIVE gcd(_, _)
gcd(a, b) == IF b = 0 THEN a ELSE gcd(b, a % b)

abs(n) == IF n < 0 THEN -n ELSE n

\* numerator / denominator for Python numbers: the quotient, kept exact as a
\* fraction in lowest terms with a positive denominator, or ZeroDivisionError
truediv(numerator, denominator) ==
    IF denominator = 0 THEN [raised |-> "ZeroDivisionError"]
    ELSE LET g == gcd(abs(numerator), abs(denominator))
             sign == IF denominator < 0 THEN -1 ELSE 1
         IN  [returned |-> [kind |-> "float",
                            num |-> sign * (numerator \div g),
                            den |-> abs(denominator) \div g]]

\* faulty variant of safe_divide: the error is caught and None is returned,
\* whatever default_value is
safe_divide_returning_none(numerator, denominator, default_value) ==
    LET quotient == truediv(numerator, denominator)
    IN  IF "raised" \in DOMAIN quotient /\ quotient.raised = "ZeroDivisionError"
        THEN [returned |-> None]
        ELSE quotient

\* safe_divide(numerator, denominator, default_value)
safe_divide(numerator, denominator, default_value) ==
    LET quotient == truediv(numerator, denominator)
    IN  IF "raised" \in DOMAIN quotient /\ quotient.raised = "ZeroDivisionError"
        THEN [returned |-> default_value]
        ELSE quotient

Operands == (-MaxOperand)..MaxOperand

\* the values given as default_value: 0, "Error", None
DefaultValues == {Num(0), Str("Error"), None}

\* the arguments of a call: default_value is given or left out
DivideCalls ==
    [numerator : Operands, denominator : Operands]
    \cup [numerator : Operands, denominator : Operands,
          default_value : DefaultValues]

InitDivide ==
    /\ divArgs = NoRow
    /\ divOut = NoRow
    /\ RecordIdle
    /\ StatusIdle
    /\ StageIdle
    /\ SiteIdle
    /\ CheckIdle
    /\ PipeIdle

\* a call of safe_divide; default_value is None when it is left out
SafeDivide ==
    \E args \in DivideCalls :
        /\ divArgs' = args
        /\ divOut' = safe_divide(args.numerator, args.denominator,
                                 IF "default_value" \in DOMAIN args
                                 THEN args.default_value ELSE None)
        /\ UNCHANGED <<recordVars, statusVars, stageVars, siteVars, checkVars,
                       pipeVars>>

NextDivide == SafeDivide

SpecDivide == InitDivide /\ [][NextDivide]_vars

----------------------------------------------------------------------------
(* scripts/auto_pipeline.py: HVDCPipeline.run_pipeline *)

\* validate_data: the columns the uploaded table must have
auto_required_columns ==
    {"NO.", "SCT SHIP NO.", "VENDOR", "MAIN DESCRIPTION (PO)", "SUB DESCRIPTION"}

\* upload_new_data(new_file_name): False when the new file does not exist,
\* and False when the backup or the copy raises; True otherwise
upload_new_data(args, copy_outcome) ==
    IF ~args.new_file_exists THEN FALSE
    ELSE copy_outcome = "copied"

\* validate_data(): False when reading the table raises or a required
\* column is missing; True otherwise
validate_data(args, read_outcome) ==
    IF read_outcome = "exception" THEN FALSE
    ELSE auto_required_columns \subseteq args.columns

\* run_step(description, command): True when the command ends with return
\* code 0; False on another return code and when subprocess.run raises
run_step(outcome) == outcome = "returncode 0"

\* the command of step 5
analyze_cmd(args) ==
    "python analyze_data.py --route-delay-report"
        \o (IF args.weighted_delay THEN " --weighted-delay" ELSE "")
        \o (IF args.export # "" THEN " --export " \o args.export ELSE "")

\* faulty variant of after_step: a failed quality check does not end the run
after_step_past_quality(step, ok, args) ==
    IF ~ok /\ step # "quality" THEN [pc |-> "done", out |-> "False"]
    ELSE CASE step = "upload" -> [pc |-> "validate", out |-> ""]
           [] step = "validate" -> [pc |-> "mapping", out |-> ""]
           [] step = "mapping" -> [pc |-> "quality", out |-> ""]
           [] step = "quality" ->
                IF args.route_delay_report THEN [pc |-> "report", out |-> ""]
                ELSE [pc |-> "done", out |-> "True"]
           [] step = "report" -> [pc |-> "done", out |-> "True"]

\* where run_pipeline goes after a step: a step that returned False makes
\* it return False; after the quality check the report step follows only
\* when route_delay_report is set; after the last step it returns True
after_step(step, ok, args) ==
    IF ~ok THEN [pc |-> "done", out |-> "False"]
    ELSE CASE step = "upload" -> [pc |-> "validate", out |-> ""]
           [] step = "validate" -> [pc |-> "mapping", out |-> ""]
           [] step = "mapping" -> [pc |-> "quality", out |-> ""]
           [] step = "quality" ->
                IF args.route_delay_report THEN [pc |-> "report", out |-> ""]
                ELSE [pc |-> "done", out |-> "True"]
           [] step = "report" -> [pc |-> "done", out |-> "True"]

\* what a copy, a read and a command can end with
CopyOutcomes == {"copied", "exception"}
ReadOutcomes == {"read", "exception"}
StepOutcomes == {"returncode 0", "returncode 1", "exception"}

\* run_pipeline(new_file_name, weighted_delay, route_delay_report, export),
\* with what the new file is: there or not, and the columns of its table
PipelineRuns ==
    [new_file_exists : BOOLEAN,
     columns : {auto_required_columns \ missing :
                   missing \in {{}, {"NO."}, {"VENDOR", "SUB DESCRIPTION"}}},
     weighted_delay : BOOLEAN,
     route_delay_report : BOOLEAN,
     export : {"", "html"}]

InitAuto ==
    /\ pipeArgs \in PipelineRuns
    /\ pipePc = "upload"
    /\ pipeLog = <<>>
    /\ pipeOut = ""
    /\ RecordIdle
    /\ StatusIdle
    /\ StageIdle
    /\ SiteIdle
    /\ CheckIdle
    /\ UtilIdle

\* a step of run_pipeline has run with result ok
Advance(step, command, ok) ==
    /\ pipeLog' = Append(pipeLog, [step |-> step, command |-> command,
                                    ok |-> ok])
    /\ pipePc' = after_step(step, ok, pipeArgs).pc
    /\ pipeOut' = after_step(step, ok, pipeArgs).out
    /\ UNCHANGED <<pipeArgs, recordVars, statusVars, stageVars, siteVars,
                   checkVars, utilVars>>

\* 1. upload_new_data
UploadNewData ==
    \E outcome \in CopyOutcomes :
        /\ pipePc = "upload"
        /\ Advance("upload", "", upload_new_data(pipeArgs, outcome))

\* 2. validate_data
ValidateData ==
    \E outcome \in ReadOutcomes :
        /\ pipePc = "validate"
        /\ Advance("validate", "", validate_data(pipeArgs, outcome))

\* 3. run_step: logistics_mapper.py
RunMapperStep ==
    \E outcome \in StepOutcomes :
        /\ pipePc = "mapping"
        /\ Advance("mapping", "python logistics_mapper.py", run_step(outcome))

\* 4. run_step: quality_check.py
RunQualityStep ==
    \E outcome \in StepOutcomes :
        /\ pipePc = "quality"
        /\ Advance("quality", "python quality_check.py", run_step(outcome))

\* 5. run_step: analyze_data.py, when route_delay_report is set
RunReportStep ==
    \E outcome \in StepOutcomes :
        /\ pipePc = "report"
        /\ Advance("report", analyze_cmd(pipeArgs), run_step(outcome))

NextAuto ==
    \/ UploadNewData
    \/ ValidateData
    \/ RunMapperStep
    \/ RunQualityStep
    \/ RunReportStep

SpecAuto == InitAuto /\ [][NextAuto]_vars

----------------------------------------------------------------------------
(* Claims about the step, the lead times and the status of a record *)

\* the record's row has been through logistics_mapper's process_data
Processed == runs >= 1

\* logistics/mapper has delivered the record's row in final_df
Mapped == "LT_Status" \in DOMAIN final

\* milestone m of the processed row is present
Present(m) == df[m] \in Dates

StepNo == df["STEP_NO"].v

\* C1: for each of the 16 presence/absence combinations of the four
\* milestones the resolved step is 5 if MOSB is present, else 4 if the
\* warehouse-out date is, else 3 if the customs start is, else 2 if ATA is,
\* else 1; it is in 1..5 and decided by presence alone.
C1_StepByPresence ==
    Processed =>
        /\ StepNo \in 1..5
        /\ StepNo = 5 <=> Present("MOSB")
        /\ StepNo = 4 <=> ~Present("MOSB") /\ Present("DSV Outdoor")
        /\ StepNo = 3 <=> /\ ~Present("MOSB") /\ ~Present("DSV Outdoor")
                          /\ Present("Customs Start")
        /\ StepNo = 2 <=> /\ ~Present("MOSB") /\ ~Present("DSV Outdoor")
                          /\ ~Present("Customs Start") /\ Present("ATA")
        /\ StepNo = 1 <=> \A m \in Milestones : ~Present(m)

\* a later milestone decides the step although earlier ones are missing
C1_Witness ==
    /\ Processed
    /\ StepNo = 4
    /\ ~Present("ATA") /\ ~Present("Customs Start")

\* C2: whenever the resolved step of a record is 5, its lead-time status is
\* not NOT_ARRIVED.
C2_Step5NotNotArrived ==
    (Processed /\ Mapped /\ StepNo = 5) =>
        final["LT_Status"].v # "NOT_ARRIVED"

\* C3: over write-once milestone updates the step resolved by a later run is
\* never lower than the step resolved before; a record without milestones
\* resolves to step 1, and step 5 stays 5.
C3_StepNeverRegresses ==
    /\ [](Processed /\ (\A m \in Milestones : isna(raw[m])) => StepNo = 1)
    /\ [][(Processed /\ Processed') =>
             /\ df'["STEP_NO"].v >= StepNo
             /\ StepNo = 5 => df'["STEP_NO"].v = 5]_vars

\* a run has resolved step 5 for a record whose arrival was never written
C3_Witness ==
    /\ Processed
    /\ StepNo = 5
    /\ isna(raw["ATA"])
    /\ raw["Customs Start"] \in Dates

\* C4: the status is NOT_ARRIVED exactly when the total lead time is absent,
\* and the total is absent whenever ATA or MOSB is missing; a record with
\* only ATA and the customs start set resolves to step 3, has no total lead
\* time and has status NOT_ARRIVED.
C4_NotArrivedIffNoLeadTime ==
    /\ Mapped =>
        /\ final["LT_Status"].v = "NOT_ARRIVED" <=> isna(final["LT_Days"])
        /\ (raw["ATA"] \notin Dates \/ raw["MOSB"] \notin Dates)
               => isna(final["LT_Days"])
    /\ (Processed /\ Mapped
            /\ raw["ATA"] \in Dates /\ raw["Customs Start"] \in Dates
            /\ isna(raw["DSV Outdoor"]) /\ isna(raw["MOSB"])) =>
        /\ StepNo = 3
        /\ isna(df["LT_Total"])
        /\ isna(final["LT_Days"])
        /\ final["LT_Status"].v = "NOT_ARRIVED"

\* the record of the example, through both mappers
C4_Witness ==
    /\ Processed /\ Mapped
    /\ raw["ATA"] = Date(0) /\ raw["Customs Start"] = Date(1)
    /\ isna(raw["DSV Outdoor"]) /\ isna(raw["MOSB"])
    /\ final["LT_Status"].v = "NOT_ARRIVED"

\* the day difference of two present milestones of the processed row
RawDelta(later, earlier) == df[later].v - df[earlier].v

\* C5: after process_data the arrival -> customs delta of an island record
\* (AGI, DAS) with both milestones present is the day difference plus
\* exactly 5, that of a MIR, SHU or UNK record is the day difference, and
\* the other three deltas carry no offset; also after process_data has run
\* again on its own output.
C5_IslandOffsetOnce ==
    Processed =>
        /\ df["SITE"].v \in {"MIR", "SHU", "DAS", "AGI", "UNK"}
        /\ (Present("ATA") /\ Present("Customs Start")) =>
              df["LT_ATA_Customs"] =
                  Num(RawDelta("Customs Start", "ATA")
                      + (IF df["SITE"].v \in {"AGI", "DAS"} THEN 5 ELSE 0))
        /\ (Present("Customs Start") /\ Present("DSV Outdoor")) =>
              df["LT_Customs_DSV"] = Num(RawDelta("DSV Outdoor", "Customs Start"))
        /\ (Present("DSV Outdoor") /\ Present("MOSB")) =>
              df["LT_DSV_MOSB"] = Num(RawDelta("MOSB", "DSV Outdoor"))
        /\ (Present("ATA") /\ Present("MOSB")) =>
              df["LT_Total"] = Num(RawDelta("MOSB", "ATA"))

\* an island record, processed twice, carries the offset once
C5_Witness ==
    /\ runs >= 2
    /\ df["SITE"].v = "DAS"
    /\ Present("ATA") /\ Present("Customs Start") /\ Present("MOSB")
    /\ df["LT_ATA_Customs"] = Num(RawDelta("Customs Start", "ATA") + 5)
    /\ df["LT_Total"] = Num(RawDelta("MOSB", "ATA"))

\* C6: each of the four deltas is absent, never a number, whenever one of its
\* two endpoint milestones is missing; also the arrival -> customs delta of
\* an island record, after the +5.
C6_MissingEndpointNoDelta ==
    Processed =>
        /\ (~Present("ATA") \/ ~Present("Customs Start"))
              => isna(df["LT_ATA_Customs"])
        /\ (~Present("Customs Start") \/ ~Present("DSV Outdoor"))
              => isna(df["LT_Customs_DSV"])
        /\ (~Present("DSV Outdoor") \/ ~Present("MOSB"))
              => isna(df["LT_DSV_MOSB"])
        /\ (~Present("ATA") \/ ~Present("MOSB")) => isna(df["LT_Total"])
        /\ \A m \in Milestones : Present(m) <=> raw[m] \in Dates

\* an island record without a customs start has no arrival -> customs delta
C6_Witness ==
    /\ Processed
    /\ df["SITE"].v = "AGI"
    /\ Present("ATA") /\ ~Present("Customs Start")
    /\ isna(df["LT_ATA_Customs"])

----------------------------------------------------------------------------
(* Claims about the status and risk derivations *)

Classified == statusOut # <<>>

\* the status of lead time x with the CAUTION/DELAYED boundary at b
StatusAt(x, b) ==
    IF x.kind # "num" THEN "NOT_ARRIVED"
    ELSE IF x.v > b THEN "DELAYED"
    ELSE IF x.v > 30 THEN "CAUTION"
    ELSE "ON_TRACK"

\* C7: the mapper's status derivation gives every input exactly one status:
\* NOT_ARRIVED for an absent lead time, ON_TRACK for every L <= 30 (zero and
\* negative included), CAUTION for 30 < L <= 60, DELAYED for L > 60.
C7_StatusThresholds ==
    Classified =>
        /\ statusOut.mapper \in {"NOT_ARRIVED", "ON_TRACK", "CAUTION", "DELAYED"}
        /\ statusOut.mapper = "NOT_ARRIVED" <=> isna(lead)
        /\ statusOut.mapper = "ON_TRACK" <=> notna(lead) /\ lead.v <= 30
        /\ statusOut.mapper = "CAUTION" <=>
               notna(lead) /\ 30 < lead.v /\ lead.v <= 60
        /\ statusOut.mapper = "DELAYED" <=> notna(lead) /\ lead.v > 60

\* a negative lead time is ON_TRACK
C7_Witness ==
    /\ Classified
    /\ notna(lead) /\ lead.v < 0
    /\ statusOut.mapper = "ON_TRACK"

\* C8 as claimed: the status derivation applies the boundary its caller
\* chooses: CAUTION for 30 < L <= B, DELAYED for L > B.
C8_BoundaryFromCaller ==
    Classified => statusOut.mapper = StatusAt(lead, boundary)

\* C8 as amended: the boundary is fixed at each call site, whatever the
\* caller would like: logistics/mapper.py turns DELAYED above 60,
\* create_sample_data.py above 90, and both turn CAUTION above 30.
C8_BoundaryFixedPerCallSite ==
    Classified =>
        /\ statusOut.mapper = StatusAt(lead, 60)
        /\ statusOut.generator = StatusAt(lead, 90)

\* the caller would like 90, and the lead time lies between the boundaries
C8_Witness ==
    /\ Classified
    /\ boundary = 90
    /\ notna(lead) /\ 60 < lead.v /\ lead.v <= 90
    /\ statusOut.mapper = "DELAYED"
    /\ statusOut.generator = "CAUTION"

RiskAssigned == riskOut # ""

StatusIs(name) == statusCol /\ statusIn = Str(name)

\* C9: DELAYED maps to High, CAUTION to Medium, ON_TRACK and NOT_ARRIVED to
\* Low; the risk is N/A if and only if the status is none of the four, or
\* the status column is missing.
C9_RiskMapping ==
    RiskAssigned =>
        /\ riskOut \in {"High", "Medium", "Low", "N/A"}
        /\ StatusIs("DELAYED") => riskOut = "High"
        /\ StatusIs("CAUTION") => riskOut = "Medium"
        /\ StatusIs("ON_TRACK") => riskOut = "Low"
        /\ StatusIs("NOT_ARRIVED") => riskOut = "Low"
        /\ riskOut = "N/A" <=>
              ~(\E name \in {"DELAYED", "CAUTION", "ON_TRACK", "NOT_ARRIVED"} :
                    StatusIs(name))

\* a record that has not arrived is a low risk
C9_Witness ==
    /\ RiskAssigned
    /\ StatusIs("NOT_ARRIVED")
    /\ riskOut = "Low"

----------------------------------------------------------------------------
(* Claims about the stage classifiers *)

StageClassified == stageOut # <<>>

\* some keyword of rule i of rules is a substring of d
RuleMatches(rules, i, d) == \E k \in rules[i] : Contains(k, d)

\* r is the category of the first rule, in declaration order, that matches d
FirstMatch(rules, d, r) ==
    /\ r \in 1..Len(rules) => RuleMatches(rules, r, d)
    /\ \A i \in 1..Len(rules) : RuleMatches(rules, i, d) => r <= i
    /\ r \in 1..Len(rules) \/ r = 99

\* the description as text, lower-cased
LowerDesc == lower(desc.v)

\* C10: both classifiers go through the six rules in the order Converter,
\* Transmission, Filter/Reactor, Control/Protection, Grounding,
\* Spare/Maintenance on the lower-cased description and return the first
\* rule one of whose keywords is a substring; of two matching rules the
\* earlier wins.  "Thyristor Valve Assembly" is Converter, "Grounding
\* Electrode" is Grounding.
C10_FirstMatchInDeclarationOrder ==
    (StageClassified /\ desc.kind = "str") =>
        /\ FirstMatch(RefinedRules, LowerDesc, stageOut.refined)
        /\ FirstMatch(UpdatedRules, LowerDesc, stageOut.updated)
        /\ desc.v = "Thyristor Valve Assembly" =>
              /\ step_labels(stageOut.refined) = "Converter"
              /\ step_labels(stageOut.updated) = "Converter"
        /\ desc.v = "Grounding Electrode" =>
              /\ step_labels(stageOut.refined) = "Grounding"
              /\ step_labels(stageOut.updated) = "Grounding"

\* "Grounding Cable" holds the Grounding keyword "grounding cable" and the
\* shorter Transmission keyword "cable": the earlier rule wins
C10_Witness ==
    /\ StageClassified
    /\ desc = Str("Grounding Cable")
    /\ RuleMatches(RefinedRules, 2, LowerDesc)
    /\ RuleMatches(RefinedRules, 5, LowerDesc)
    /\ step_labels(stageOut.refined) = "Transmission"

\* the description holds a keyword of none of the six rules
NoKeyword(rules, d) == \A i \in 1..Len(rules) : ~RuleMatches(rules, i, d)

\* the description is no text, or blank text
Unusable(x) == x.kind # "str" \/ strip_is_empty(x.v)

\* C11: both stage classifiers return OTHER (99) for every description that
\* is missing, empty or blank, or not a string, and for every string that
\* holds no keyword of any of the six rules.
C11_OtherWithoutUsableText ==
    StageClassified =>
        /\ Unusable(desc) =>
              stageOut.refined = STEP_OTHER /\ stageOut.updated = STEP_OTHER
        /\ (desc.kind = "str" /\ NoKeyword(RefinedRules, LowerDesc)) =>
              stageOut.refined = STEP_OTHER
        /\ (desc.kind = "str" /\ NoKeyword(UpdatedRules, LowerDesc)) =>
              stageOut.updated = STEP_OTHER

----------------------------------------------------------------------------
(* Claims about the site *)

\* site indicator s of the row exists and carries a value
Marked(s) == s \in DOMAIN siteRow /\ siteRow[s].kind # "NaN"

\* C12: detect_site returns the first site indicator, in the order MIR, SHU,
\* DAS, AGI, that carries a value, also when several are set; when none is
\* set, or the indicator columns do not exist, it returns UNK and logs one
\* warning per call; it always returns.  DAS and AGI are the island sites,
\* MIR and SHU the mainland sites.
C12_FirstMarkedSite ==
    siteCalls >= 1 =>
        /\ siteOut \in {"MIR", "SHU", "DAS", "AGI", "UNK"}
        /\ siteOut = "MIR" <=> Marked("MIR")
        /\ siteOut = "SHU" <=> ~Marked("MIR") /\ Marked("SHU")
        /\ siteOut = "DAS" <=> ~Marked("MIR") /\ ~Marked("SHU") /\ Marked("DAS")
        /\ siteOut = "AGI" <=> /\ ~Marked("MIR") /\ ~Marked("SHU")
                               /\ ~Marked("DAS") /\ Marked("AGI")
        /\ siteOut = "UNK" <=> \A s \in SiteCols : ~Marked(s)
        /\ Len(siteLog) = (IF siteOut = "UNK" THEN siteCalls ELSE 0)
        /\ \A i \in 1..Len(siteLog) : siteLog[i].level = "WARNING"
        /\ island_mask([SITE |-> Str(siteOut)]) <=> siteOut \in {"DAS", "AGI"}
        /\ siteOut \in {"MIR", "SHU"} =>
              flow_of(siteOut) = Str(siteOut) /\ ~island_mask([SITE |-> Str(siteOut)])

\* both island indicators are set, and the MIR column does not exist
C12_Witness ==
    /\ siteCalls >= 1
    /\ Marked("DAS") /\ Marked("AGI") /\ ~Marked("SHU")
    /\ "MIR" \notin DOMAIN siteRow
    /\ siteOut = "DAS"
    /\ siteLog = <<>>

----------------------------------------------------------------------------
(* Claims about the quality checker *)

\* the latest call on the checker
LastCall == IF calls = <<>> THEN "" ELSE calls[Len(calls)]

\* a validation run has taken place, through validate_dataframe or run_pipeline
Validated == LastCall \in {"validate_dataframe", "run_pipeline"}

\* the rule instances of group g of a config: the name of their check and
\* the columns they need
GroupInstances(cfg, g) ==
    IF g \notin DOMAIN cfg THEN <<>>
    ELSE CASE g = "required_columns" ->
                <<[check_name |-> "Required columns", columns |-> <<>>]>>
           [] g = "missing_value_checks" ->
                [i \in 1..Len(cfg[g]) |->
                    [check_name |-> "Missing values",
                     columns |-> <<cfg[g][i].column>>]]
           [] g = "data_type_checks" ->
                [i \in 1..Len(cfg[g]) |->
                    [check_name |-> "Data types",
                     columns |-> <<cfg[g][i].column>>]]
           [] g = "range_checks" ->
                [i \in 1..Len(cfg[g]) |->
                    [check_name |-> "Value ranges",
                     columns |-> <<cfg[g][i].column>>]]
           [] g = "unique_columns" ->
                [i \in 1..Len(cfg[g]) |->
                    [check_name |-> "Unique values", columns |-> <<cfg[g][i]>>]]
           [] g = "date_sequence_checks" ->
                [i \in 1..Len(cfg[g]) |->
                    [check_name |-> "Date sequence",
                     columns |-> <<cfg[g][i].before, cfg[g][i].after>>]]
           [] g = "category_checks" ->
                [i \in 1..Len(cfg[g]) |->
                    [check_name |-> "Category values",
                     columns |-> <<cfg[g][i].column>>]]

\* the configured rule instances, in the order required, missing-value,
\* type, range, uniqueness, date-sequence, categorical
Instances(cfg) ==
    GroupInstances(cfg, "required_columns")
        \o GroupInstances(cfg, "missing_value_checks")
        \o GroupInstances(cfg, "data_type_checks")
        \o GroupInstances(cfg, "range_checks")
        \o GroupInstances(cfg, "unique_columns")
        \o GroupInstances(cfg, "date_sequence_checks")
        \o GroupInstances(cfg, "category_checks")

\* the columns a result says it is about
ResultColumns(r) ==
    IF "column" \in DOMAIN r.details THEN <<r.details.column>>
    ELSE IF "before_column" \in DOMAIN r.details
         THEN <<r.details.before_column, r.details.after_column>>
    ELSE <<>>

\* result r is the result of rule instance e
ResultOf(r, e) == r.check_name = e.check_name /\ ResultColumns(r) = e.columns

\* what validate_dataframe(table, config) produces on a new checker
FreshResults == run_checks(table, config).out

\* C13: after any sequence of validate_dataframe and direct check_* calls on
\* one checker, a validate_dataframe call leaves in validation_results, and
\* returns as its report, exactly the results of that call: no result of an
\* earlier run or of an earlier direct check is kept.
C13_FreshReportPerRun ==
    LastCall = "validate_dataframe" =>
        /\ validation_results = FreshResults
        /\ Len(validation_results) <= Len(Instances(config))
        /\ raised = "" => report = FreshResults

\* a direct check has appended two results; the run that follows, with a
\* config without rules, leaves none of them
C13_Witness ==
    /\ calls = <<"check_unique_values", "validate_dataframe">>
    /\ config = Restrict(all_rules, {})
    /\ validation_results = <<>>
    /\ report = <<>>

C15_FailIffSomeFail ==
    (LastCall = "run_pipeline" /\ raised = "") =>
        /\ overall = "fail" <=>
              \E i \in 1..Len(report) : report[i].status = "FAIL"
        /\ (report # <<>> /\ \A i \in 1..Len(report) :
                                 report[i].status \in {"PASS", "WARN"})
              => overall = "pass"

\* a report with a warning and no failure passes
C15_Witness ==
    /\ LastCall = "run_pipeline"
    /\ overall = "pass"
    /\ \E i \in 1..Len(report) : report[i].status = "WARN"
    /\ \A i \in 1..Len(report) : report[i].status # "FAIL"

\* some column that rule instance e needs is not in the table
LacksColumn(e) == \E k \in 1..Len(e.columns) : e.columns[k] \notin DOMAIN table

\* C16: in the missing-value, type, range, uniqueness, date-sequence and
\* categorical checks a configured column that the table lacks gives one
\* WARN result for its rule instance, never a FAIL and never an exception,
\* and the run goes on with the instances and groups that follow.
C16_AbsentColumnWarns ==
    Validated =>
        /\ \A i \in 1..Len(validation_results) :
              LacksColumn(Instances(config)[i]) =>
                  /\ validation_results[i].status = "WARN"
                  /\ ResultOf(validation_results[i], Instances(config)[i])
        /\ raised # "" =>
              /\ Len(validation_results) < Len(Instances(config))
              /\ ~LacksColumn(Instances(config)[Len(validation_results) + 1])
        /\ raised = "" => Len(validation_results) = Len(Instances(config))

\* a run whose second uniqueness column is absent: it warns, and the
\* date-sequence and categorical groups follow
C16_Witness ==
    /\ LastCall = "validate_dataframe"
    /\ config = Restrict(all_rules, DOMAIN all_rules \ {"required_columns"})
    /\ raised = ""
    /\ validation_results[11].check_name = "Unique values"
    /\ validation_results[11].status = "WARN"
    /\ validation_results[12].check_name = "Date sequence"
    /\ validation_results[15].check_name = "Category values"
    /\ validation_results[15].status = "FAIL"

\* the results of the check named name, in the order of the list
ResultsOf(name) ==
    SelectSeq(validation_results, LAMBDA r : r.check_name = name)

\* the named columns that the table lacks
AbsentAmong(names) == {names[k] : k \in {j \in 1..Len(names) :
                                            names[j] \notin DOMAIN table}}

\* C17: the required-columns check appends exactly one result, however many
\* columns are named: FAIL, with a message and details that name every
\* absent column, when some named column is absent, PASS when none is.
C17_RequiredColumnsOneResult ==
    (Validated /\ "required_columns" \in DOMAIN config) =>
        LET absent == AbsentAmong(config.required_columns)
            r == validation_results[1]
        IN  /\ Len(ResultsOf("Required columns")) = 1
            /\ r.check_name = "Required columns"
            /\ absent = {} => r.status = "PASS"
            /\ absent # {} =>
                  /\ r.status = "FAIL"
                  /\ \A c \in absent : Contains(c, r.message)
                  /\ {r.details.missing_columns[k] :
                         k \in 1..Len(r.details.missing_columns)} = absent

\* two columns are named, the table has neither, and one result names both
C17_Witness ==
    /\ Validated
    /\ config = [required_columns |-> <<"NO.", "ATA">>]
    /\ "NO." \notin DOMAIN table /\ "ATA" \notin DOMAIN table
    /\ Len(validation_results) = 1
    /\ validation_results[1].status = "FAIL"
    /\ Contains("NO.", validation_results[1].message)
    /\ validation_results[1].details.missing_columns = <<"NO.", "ATA">>

\* the number of null cells of column c of the table
Nulls(c) == Cardinality({i \in 1..Len(table[c]) : table[c][i].kind = "NaN"})

\* the results of the missing-value check on a column that exists
MissingValueResults ==
    SelectSeq(validation_results,
              LAMBDA r : r.check_name = "Missing values"
                            /\ "threshold" \in DOMAIN r.details)

\* C18: for a present column with m null values among n rows and the
\* threshold t, the missing-value check gives FAIL if t = 0 and m > 0, WARN
\* if t > 0 and m / n * 100 > t, and PASS otherwise, also when the
\* percentage equals t; one null among 5 rows with t = 0 gives FAIL with a
\* message that holds "20.00%".
C18_MissingValueThreshold ==
    Validated =>
        \A i \in 1..Len(MissingValueResults) :
            LET r == MissingValueResults[i]
                m == Nulls(r.details.column)
                n == len(table)
                t == r.details.threshold
                above == n > 0 /\ 100 * m > t * n
            IN  /\ r.details.missing_count = m
                /\ r.status = "FAIL" <=> t = 0 /\ m > 0
                /\ r.status = "WARN" <=> t > 0 /\ above
                /\ r.status = "PASS" <=> ~above
                /\ (n = 5 /\ m = 1 /\ t = 0) =>
                      r.status = "FAIL" /\ Contains("20.00%", r.message)

\* one null among 5 rows with t = 20: the percentage equals the threshold
C18_Witness ==
    /\ Validated
    /\ config = [missing_value_checks |-> <<[column |-> "NO.", threshold |-> 20],
                                            [column |-> "ATA", threshold |-> 20]>>]
    /\ len(table) = 5
    /\ "NO." \in DOMAIN table /\ Nulls("NO.") = 1
    /\ validation_results[1].status = "PASS"
    /\ Contains("20.00%", validation_results[1].message)

\* entry k of missing_value_checks gives its threshold as threshold_percent
\* t > 0, and its column exists and has null cells
PercentEntry(k) ==
    LET entry == config.missing_value_checks[k] IN
    /\ "threshold_percent" \in DOMAIN entry
    /\ entry.threshold_percent > 0
    /\ entry.column \in DOMAIN table
    /\ Nulls(entry.column) > 0

\* C19: validate_dataframe applies the threshold_percent of each
\* missing_value_checks entry: with t > 0, on a column with null values, the
\* result is PASS when the percentage is at most t and WARN when it is
\* above t, never FAIL.
C19_ThresholdPercentApplied ==
    (Validated /\ "missing_value_checks" \in DOMAIN config) =>
        \A k \in 1..Len(config.missing_value_checks) :
            PercentEntry(k) =>
                LET entry == config.missing_value_checks[k]
                    above == 100 * Nulls(entry.column)
                                 > entry.threshold_percent * len(table)
                    r == validation_results[
                             Len(GroupInstances(config, "required_columns")) + k]
                IN  /\ r.details.column = entry.column
                    /\ r.status # "FAIL"
                    /\ r.status = (IF above THEN "WARN" ELSE "PASS")

\* item k of data_type_checks names a column of the table
TypeItemPresent(k) == config.data_type_checks[k].column \in DOMAIN table

\* the sample value, or the dtype, of column c matches one of the tags
TypeMatches(c, tags) ==
    \E j \in 1..Len(tags) :
        \/ tags[j].form = "class" /\ tags[j].name \in bases(sample_type(table[c]))
        \/ is_dtype_equal(dtype(table[c]), tags[j])

\* C20: for every configured column that exists and every list of type
\* tags, tags given as dtype names ("int64", "datetime64[ns]") included, the
\* type check appends one result and does not raise: PASS if the type of the
\* first row's value or the dtype of the column matches a tag, FAIL if not.
C20_TypeCheckTotal ==
    (Validated /\ "data_type_checks" \in DOMAIN config) =>
        LET before == Len(GroupInstances(config, "required_columns"))
                          + Len(GroupInstances(config, "missing_value_checks"))
        IN  /\ raised # "TypeError"
            /\ Len(validation_results) >= before + Len(config.data_type_checks)
            /\ \A k \in 1..Len(config.data_type_checks) :
                  TypeItemPresent(k) =>
                      /\ validation_results[before + k].details.column =
                             config.data_type_checks[k].column
                      /\ validation_results[before + k].status =
                             (IF TypeMatches(config.data_type_checks[k].column,
                                             config.data_type_checks[k].types)
                              THEN "PASS" ELSE "FAIL")


\* the number of rule instances of the groups that come before group g
RECURSIVE InstancesUpTo(_)
InstancesUpTo(i) ==
    IF i = 0 THEN 0
    ELSE InstancesUpTo(i - 1) + Len(GroupInstances(config, rule_groups[i]))

InstancesBefore(g) ==
    InstancesUpTo((CHOOSE i \in 1..Len(rule_groups) : rule_groups[i] = g) - 1)

\* the run has appended the result of entry k of group g
Reached(g, k) == InstancesBefore(g) + k <= Len(validation_results)

\* the result of entry k of group g
ResultAt(g, k) == validation_results[InstancesBefore(g) + k]

\* the rows of column c whose number lies below min or above max
Offending(c, ranges) ==
    {i \in 1..Len(table[c]) :
        /\ table[c][i].kind = "num"
        /\ \/ "min" \in DOMAIN ranges /\ table[c][i].v < ranges.min
           \/ "max" \in DOMAIN ranges /\ table[c][i].v > ranges.max}

\* C21: for a column that the table has, the range check gives FAIL when
\* the column is not numeric; for a numeric column it gives FAIL with the
\* number of non-missing values below min or above max when there is one,
\* and PASS when every non-missing value lies in [min, max]: a value equal
\* to a bound passes, missing values are ignored, an omitted bound does not
\* bound.
C21_RangeCheck ==
    (Validated /\ "range_checks" \in DOMAIN config) =>
        \A k \in 1..Len(config.range_checks) :
            LET entry == config.range_checks[k] IN
            /\ raised = "" => Reached("range_checks", k)
            /\ (Reached("range_checks", k) /\ entry.column \in DOMAIN table) =>
                  LET r == ResultAt("range_checks", k)
                      count == Cardinality(Offending(entry.column, entry.ranges))
                  IN  /\ r.check_name = "Value ranges"
                      /\ r.details.column = entry.column
                      /\ IF ~is_numeric_dtype(table[entry.column])
                         THEN r.status = "FAIL" /\ r.details = [column |-> entry.column]
                         ELSE IF count > 0
                         THEN /\ r.status = "FAIL"
                              /\ r.details.out_of_range_count = count
                         ELSE r.status = "PASS"

\* NO. holds 1..MaxRows and one number is below min 2; ATA holds dates;
\* LT_Days holds 10 in every row but a missing one, above max 9; and in
\* another run a number equal to min passes
C21_Witness ==
    \/ /\ Validated
       /\ config \in RangeConfigs
       /\ {"NO.", "ATA", "LT_Days"} \subseteq DOMAIN table
       /\ table["NO."] = Serial(MaxRows)
       /\ Len(validation_results) = 3
       /\ validation_results[1].status = "FAIL"
       /\ validation_results[1].details.out_of_range_count = 1
       /\ validation_results[2].status = "FAIL"
       /\ validation_results[3].details.out_of_range_count = MaxRows - 1
    \/ /\ Validated
       /\ config = Restrict(all_rules, {"range_checks"})
       /\ "NO." \in DOMAIN table
       /\ table["NO."] = Constant(MaxRows, Num(1))
       /\ validation_results[1].status = "PASS"

\* the distinct values of column c, and those that occur in several rows
Distinct(c) == {table[c][i] : i \in 1..Len(table[c])}

Repeated(c) ==
    {x \in Distinct(c) :
        Cardinality({i \in 1..Len(table[c]) : table[c][i] = x}) > 1}

\* the members of a list
Members(xs) == {xs[i] : i \in 1..Len(xs)}

\* C22: for a column that the table has, the uniqueness check gives FAIL if
\* and only if some value occurs in more than one row; the duplicate count
\* it reports is the number of rows minus the number of distinct values, and
\* the values it reports are the distinct values that occur more than once,
\* each once; otherwise it gives PASS.
C22_UniquenessCheck ==
    (Validated /\ "unique_columns" \in DOMAIN config) =>
        \A k \in 1..Len(config.unique_columns) :
            LET c == config.unique_columns[k] IN
            /\ raised = "" => Reached("unique_columns", k)
            /\ (Reached("unique_columns", k) /\ c \in DOMAIN table) =>
                  LET r == ResultAt("unique_columns", k) IN
                  /\ r.check_name = "Unique values"
                  /\ r.details.column = c
                  /\ r.status = (IF Repeated(c) # {} THEN "FAIL" ELSE "PASS")
                  /\ r.status = "FAIL" =>
                        /\ r.details.duplicate_count =
                               Len(table[c]) - Cardinality(Distinct(c))
                        /\ Members(r.details.duplicate_values) = Repeated(c)
                        /\ Len(r.details.duplicate_values) =
                               Cardinality(Repeated(c))

\* NO. is unique and passes; ATA holds one date in every row but a missing
\* one; the label column holds one label in every row but the last, and
\* the last label, which occurs once, is not reported
C22_Witness ==
    /\ Validated
    /\ config \in UniqueConfigs
    /\ DOMAIN table = CheckedColumns
    /\ table["ATA"] = WithNull(Constant(MaxRows, Date(1)), 2)
    /\ table["HVDC_STEP_Label"] =
           WithLast(Constant(MaxRows, Str("Converter")), Str("Unknown"))
    /\ Len(validation_results) = 3
    /\ validation_results[1].status = "PASS"
    /\ validation_results[2].details.duplicate_count = MaxRows - 2
    /\ validation_results[2].details.duplicate_values = <<Date(1)>>
    /\ validation_results[3].details.duplicate_count = MaxRows - 2
    /\ validation_results[3].details.duplicate_values = <<Str("Converter")>>

\* the rows in which both columns hold a date and the date of column b is
\* later than the date of column a
Late(b, a) ==
    {i \in 1..len(table) :
        /\ table[b][i].kind = "date"
        /\ table[a][i].kind = "date"
        /\ table[b][i].v > table[a][i].v}

\* C23: for a configured pair of columns that the table has, the
\* date-sequence check gives FAIL with count k when k > 0 rows hold two dates
\* of which the before date is strictly later than the after date, and PASS
\* otherwise: rows with equal dates pass, and a row whose before or after
\* cell is missing or no date is not counted.
C23_DateSequenceCheck ==
    (Validated /\ "date_sequence_checks" \in DOMAIN config) =>
        \A k \in 1..Len(config.date_sequence_checks) :
            LET entry == config.date_sequence_checks[k] IN
            /\ raised = "" => Reached("date_sequence_checks", k)
            /\ (/\ Reached("date_sequence_checks", k)
                /\ {entry.before, entry.after} \subseteq DOMAIN table) =>
                  LET r == ResultAt("date_sequence_checks", k)
                      count == Cardinality(Late(entry.before, entry.after))
                  IN  /\ r.check_name = "Date sequence"
                      /\ r.details.before_column = entry.before
                      /\ r.details.after_column = entry.after
                      /\ r.status = (IF count > 0 THEN "FAIL" ELSE "PASS")
                      /\ count > 0 => r.details.invalid_count = count

\* ATA is a day later than MOSB in every row but the one without ATA: the
\* rows with both dates are counted; in other runs equal dates pass, and so
\* does a column of text that is no date
C23_Witness ==
    /\ Validated
    /\ config = Restrict(all_rules, {"date_sequence_checks"})
    /\ {"ATA", "MOSB"} \subseteq DOMAIN table
    /\ table["ATA"] = WithNull(Constant(MaxRows, Date(1)), 2)
    /\ table["MOSB"] = Constant(MaxRows, Date(0))
    /\ validation_results[1].status = "FAIL"
    /\ validation_results[1].details.invalid_count = MaxRows - 1

\* the rows of column c that hold a value other than the allowed ones
Invalid(c, allowed_values) ==
    {i \in 1..Len(table[c]) :
        /\ table[c][i].kind # "NaN"
        /\ table[c][i] \notin {Str(allowed_values[k]) :
                                  k \in 1..Len(allowed_values)}}

\* C24: for every column that the table has and every list of allowed
\* values, also when the column holds null values, the categorical check
\* appends exactly one result and does not raise: FAIL with the number of
\* non-null values outside the list and the distinct values among them when
\* there is one, PASS otherwise; a null value is never counted.
C24_CategoricalCheckTotal ==
    (Validated /\ "category_checks" \in DOMAIN config /\ raised # "TypeError") =>
        /\ raised = ""
        /\ \A k \in 1..Len(config.category_checks) :
              LET entry == config.category_checks[k] IN
              /\ Reached("category_checks", k)
              /\ entry.column \in DOMAIN table =>
                    LET r == ResultAt("category_checks", k)
                        rows == Invalid(entry.column, entry.allowed_values)
                    IN  /\ r.check_name = "Category values"
                        /\ r.details.column = entry.column
                        /\ r.status = (IF rows # {} THEN "FAIL" ELSE "PASS")
                        /\ rows # {} =>
                              /\ r.details.invalid_count = Cardinality(rows)
                              /\ Members(r.details.invalid_values) =
                                     {table[entry.column][i] : i \in rows}

\* the attributes that process_data derives for a record
DerivedAttributes ==
    {"STEP_NO", "STEP_NAME", "SITE", "FLOW", "HVDC_STEP", "HVDC_STEP_Label",
     "LT_ATA_Customs", "LT_Customs_DSV", "LT_DSV_MOSB", "LT_Total"}

Derived(d) == [c \in DerivedAttributes |-> d[c]]

\* C25: running again changes nothing: process_data on the table it has
\* classified leaves the step, site, stage and lead-time attributes of the
\* record as they were, and a second validate_dataframe with the same table
\* and config returns the results of the first, in the same order.
C25_RerunIdempotent ==
    [][/\ (runs >= 1 /\ runs' = runs + 1) => Derived(df') = Derived(df)
       /\ (calls # <<>> /\ calls' = Append(calls, "validate_dataframe")) =>
              /\ report' = report
              /\ validation_results' = validation_results
              /\ raised' = raised]_vars

\* an island record that has arrived and cleared customs has been processed
\* twice, with the corrected delta, and the table has been validated twice
\* with a report of several results
C25_Witness ==
    /\ runs = MaxRuns
    /\ df["SITE"].v = "DAS"
    /\ df["LT_ATA_Customs"].kind = "num"
    /\ calls = <<"validate_dataframe", "validate_dataframe">>
    /\ config = all_rules
    /\ raised = ""
    /\ Len(report) = Len(Instances(config))
    /\ \E i \in 1..Len(report) : report[i].status = "FAIL"

\* C26: when the loaded table has no NO. column at all, process_data() of
\* logistics/mapper.py raises an error to its caller and delivers no table;
\* it does not put a placeholder column in the place of NO. and go on.
C26_MissingIdentityRaises ==
    (calls = <<"process_data">> /\ "NO." \notin DOMAIN raw) =>
        /\ raised # ""
        /\ overall = "aborted"

\* a step of the model is a validation run
ValidationStep ==
    \/ calls' = Append(calls, "validate_dataframe")
    \/ calls = <<>> /\ calls' = <<"run_pipeline">>

\* C27: validate_dataframe only reads what it is given: after a run the
\* table has the columns, rows and values it had and the config is the
\* config it was; the run changes the checker's validation_results (and
\* what it returns and logs) and nothing else.
C27_ValidateOnlyReads ==
    [][ValidationStep =>
           /\ table' = table
           /\ config' = config
           /\ UNCHANGED <<recordVars, statusVars, stageVars, siteVars, utilVars, pipeVars>>]_vars

\* a run of the date-sequence check on a column of text that is no date:
\* the check has treated the text as no date, and the table still holds it
C27_Witness ==
    /\ LastCall = "validate_dataframe"
    /\ config = Restrict(all_rules, {"date_sequence_checks"})
    /\ {"ATA", "MOSB"} \subseteq DOMAIN table
    /\ table["ATA"] = Constant(MaxRows, Str("n/a"))
    /\ Len(validation_results) = 2
    /\ validation_results[1].status = "PASS"

\* C28: safe_divide returns numerator / denominator for every denominator
\* other than zero; for a zero denominator it returns default_value, None
\* when default_value is not given, and raises no ZeroDivisionError.
C28_SafeDivide ==
    divArgs # NoRow =>
        /\ DOMAIN divOut = {"returned"}
        /\ IF divArgs.denominator # 0
           THEN /\ divOut.returned.kind = "float"
                /\ divOut.returned.den > 0
                /\ divOut.returned.num * divArgs.denominator
                       = divArgs.numerator * divOut.returned.den
           ELSE divOut.returned =
                    (IF "default_value" \in DOMAIN divArgs
                     THEN divArgs.default_value ELSE None)

\* safe_divide(3, 0, default_value="Error") has returned "Error"
C28_Witness ==
    /\ divArgs = [numerator |-> 3, denominator |-> 0,
                  default_value |-> Str("Error")]
    /\ divOut = [returned |-> Str("Error")]

\* C29: validate_dataframe looks for the seven keys required_columns,
\* missing_value_checks, data_type_checks, range_checks, unique_columns,
\* date_sequence_checks and category_checks; every result of a run belongs
\* to a rule instance under one of them, and a config that lists its
\* allow-lists under categorical_checks, as the default config of the
\* pipeline does, gets no categorical result for the stage label or the
\* lead-time status.
C29_OnlySevenKeys ==
    Validated =>
        /\ Len(validation_results)
               <= Len(Instances(Restrict(config, Members(rule_groups))))
        /\ raised = "" =>
               Len(report) = Len(Instances(Restrict(config, Members(rule_groups))))
        /\ \A i \in 1..Len(validation_results) :
               ResultOf(validation_results[i],
                        Instances(Restrict(config, Members(rule_groups)))[i])
        /\ "category_checks" \notin DOMAIN config =>
               ResultsOf("Category values") = <<>>

\* the default config on a table whose only column is the stage label, with
\* a label outside the allow-list: twelve results, none of them categorical
C29_Witness ==
    /\ Validated
    /\ config = default_validation_config
    /\ DOMAIN table = {"HVDC_STEP_Label"}
    /\ table["HVDC_STEP_Label"] =
           WithLast(Constant(MaxRows, Str("Converter")), Str("Unknown"))
    /\ raised = ""
    /\ Len(report) = 12
    /\ ResultsOf("Category values") = <<>>

\* the steps run_pipeline is to execute, in order
StepOrder ==
    <<"upload", "validate", "mapping", "quality">>
        \o (IF pipeArgs.route_delay_report THEN <<"report">> ELSE <<>>)

\* C30: run_pipeline of auto_pipeline.py starts its steps in the order
\* upload, required-column validation, mapping, quality check and, only
\* when route_delay_report is set, route-delay report; the first step that
\* fails makes it return False and no later step is started; it returns
\* True only when every step it was to execute has succeeded.
C30_StepsInOrder ==
    pipeArgs # NoRow =>
        /\ Len(pipeLog) <= Len(StepOrder)
        /\ \A i \in 1..Len(pipeLog) : pipeLog[i].step = StepOrder[i]
        /\ \A i \in 1..(Len(pipeLog) - 1) : pipeLog[i].ok
        /\ pipeOut \in {"", "True", "False"}
        /\ pipeOut = "False" <=>
               (pipeLog # <<>> /\ ~pipeLog[Len(pipeLog)].ok)
        /\ pipeOut = "True" <=>
               (/\ Len(pipeLog) = Len(StepOrder)
                /\ \A i \in 1..Len(pipeLog) : pipeLog[i].ok)
        /\ pipeOut = "" <=> pipePc # "done"
        /\ pipePc # "done" => pipePc = StepOrder[Len(pipeLog) + 1]

\* a run with the report step in which the quality check has failed: four
\* steps were started, the report was not, and False was returned
C30_Witness ==
    /\ pipeArgs # NoRow
    /\ pipeArgs.route_delay_report
    /\ Len(pipeLog) = 4
    /\ pipeLog[4].step = "quality"
    /\ ~pipeLog[4].ok
    /\ pipeOut = "False"
    /\ pipePc = "done"

=============================================================================
